---- MODULE Spec2Model ----
(***************************************************************************)
(* State-machine model of src/src/ESP32App_Led_IR.cpp: the globals of the   *)
(* sketch are the variables, setup() and loop() are the actions, and every  *)
(* helper function of the sketch is an operator on a record of the globals. *)
(*                                                                         *)
(* External libraries are modelled at their interface only:                *)
(*   - FastLED keeps a brightness scalar (hwBrightness) and counts the      *)
(*     calls of FastLED.show() of the running pass (shows), with what     *)
(*     each call puts on the strip (commits);                              *)
(*   - a colour built from CHSV(h, s, v) is kept symbolically as            *)
(*     <<"hsv", h, s, v>> (the library's conversion is deterministic, so    *)
(*     equal triples give equal colours), except that value 0 is black;    *)
(*   - the IR receiver delivers per pass nothing, a decoded code, or a      *)
(*     repeat frame; the button delivers "released" or not.                 *)
(***************************************************************************)
EXTENDS Integers, Sequences, FiniteSets, TLC

VARIABLES
    pc,                 \* "setup" before setup() has run, "loop" afterwards
    deviceState_,       \* t_State
    lightMode_,         \* t_LightMode
    brightness_,        \* uint8_t
    refreshNeeded_,     \* bool
    paused_,            \* bool
    renderCyclesHold_,  \* uint8_t
    cycleNr_,           \* int
    hueBase_,           \* uint8_t
    dirLeft_,           \* bool
    sparkleColorIdx_,   \* uint8_t
    sparkleValue_,      \* uint8_t
    sparkleState_,      \* int8_t
    constantColor,      \* CRGB
    sprites_,           \* t_LedSprite[RENDER_SPRITES_NUM_SPRITES_MAX]
    ledStrip_,          \* CRGB[NUM_LEDS]
    ledAtom_,           \* CRGB[1]
    irCmdAvailable_,    \* bool
    irCmdValue_,        \* uint64_t
    hwBrightness,       \* FastLED's brightness scalar (FastLED.setBrightness)
    shows,              \* FastLED.show() calls made by the last pass
    commits,            \* what each of these calls has shown: brightness and strip
    switched,           \* the last pass called switchDeviceState()
    cmdApplied,         \* the last pass called processUserInputColorEffects()
    rendered,           \* the last pass took a render step (cycleNr_ == 0 && !paused_)
    inBtn,              \* input of the last pass: btn_.wasReleased()
    inIr,               \* input of the last pass: "none", "cmd" or "repeat"
    lastCmd,            \* history: the last non-repeat code decoded
    powerHist,          \* history: deviceState_ before each of the last switches
    modeHist,           \* history: lightMode_ before each of the last mode changes
    decRun,             \* history: BrightnessDown commands applied in a row since 50
    spawned,            \* history: sprites spawned by renderSprite() so far
    passes,             \* history: passes of loop() counted by the runs (all of
                        \* them, or those since the last render step)
    call                \* <<startBr, endBr>> of a call of fadeBrightness() examined
                        \* on its own; <<>> while the sketch runs

vars == <<pc, deviceState_, lightMode_, brightness_, refreshNeeded_, paused_,
          renderCyclesHold_, cycleNr_, hueBase_, dirLeft_, sparkleColorIdx_,
          sparkleValue_, sparkleState_, constantColor, sprites_, ledStrip_,
          ledAtom_, irCmdAvailable_, irCmdValue_, hwBrightness, shows, commits,
          switched, cmdApplied, rendered, inBtn, inIr, lastCmd, powerHist, modeHist,
          decRun, spawned, passes, call>>

----------------------------------------------------------------------------
(* Program constants *)

NUM_LEDS == 29

OFF == 0
ON == 1
ECO == 2

CONSTANT_MODE == 0
GRADIENT == 1
CHASE == 2
SPRITE == 3
SPARKLE == 4

BRIGHTNESS_OFF == 8
BRIGHTNESS_ON == 20
BRIGHTNESS_ECO == 10
BRIGHTNESS_MIN == 2
BRIGHTNESS_MAX == 50
BRIGHTNESS_STEP == 2

RENDER_NUM_CYCLES_HOLD_MIN == 2
RENDER_NUM_CYCLES_HOLD_MAX == 40
RENDER_NUM_CYCLES_HOLD_STEP == 2

RENDER_HUE_MAX == 256
RENDER_CHASE_NUM_COLORS == 16
RENDER_CHASE_HUE_STEP == RENDER_HUE_MAX \div RENDER_CHASE_NUM_COLORS
RENDER_CHASE_NUM_CYCLES_HOLD_INIT == 20
RENDER_GRADIENT_NUM_STEPS == 64
RENDER_GRADIENT_HUE_STEP == RENDER_HUE_MAX \div RENDER_GRADIENT_NUM_STEPS
RENDER_GRADIENT_NUM_CYCLES_HOLD_INIT == 4
RENDER_SPRITES_NUM_CYCLES_HOLD_INIT == 2
RENDER_SPRITES_NUM_SPRITES_MAX == 10
RENDER_SPARKLE_NUM_CYCLES_HOLD_INIT == 2
RENDER_SPARKLE_LIGHTNESS_STEP == 5
RENDER_SPARKLE_LIGHTNESS_MIN == 50
SPARKLE_COLOR_HUE == <<160, 96, 0, 0>>
SPARKLE_COLOR_SAT == <<255, 255, 255, 0>>

IR_ON_OFF == 551489775
IR_BRIGHTNESS_INC == 551485695
IR_BRIGHTNESS_DEC == 551518335
IR_MODE_CHANGE == 551530065
IR_PLAY == 551488500
IR_PAUSE == 551515020
IR_SLOWER == 551508645
IR_FASTER == 551550210
IR_LEFT == 551486715
IR_RIGHT == 551512980
IR_RED == 551505585
IR_GREEN == 551521905
IR_YELLOW == 551536185
IR_BLUE == 551519865
IR_WHITE == 551507370

\* A code of the same remote control that the sketch gives no meaning.
IR_OTHER == 551494365

\* 8-bit unsigned arithmetic of uint8_t variables.
U8(x) == x % 256

----------------------------------------------------------------------------
(* Colours *)

CRGB(r, g, b) == <<"rgb", r, g, b>>

Black == CRGB(0, 0, 0)

CHSV(h, s, v) == IF v = 0 THEN Black ELSE <<"hsv", h, s, v>>

COLOR_OFF == CRGB(255, 0, 0)
COLOR_ON == CRGB(0, 255, 0)
COLOR_ECO == CRGB(0, 255, 0)
RENDER_CONSTANT_COLOR_DEFAULT == CRGB(255, 255, 255)

\* CRGB::nscale8_video on one channel: a non-zero channel never fades to zero.
scale8_video(c, scale) == IF c = 0 \/ scale = 0 THEN 0 ELSE ((c * scale) \div 256) + 1

nscale8_video(col, scale) ==
    CRGB(scale8_video(col[2], scale), scale8_video(col[3], scale),
         scale8_video(col[4], scale))

LedIdx == 0 .. (NUM_LEDS - 1)
SpriteIdx == 0 .. (RENDER_SPRITES_NUM_SPRITES_MAX - 1)

AllBlack == [ledNr \in LedIdx |-> Black]

\* t_LedSprite with its default member initialisers.
LedSprite ==
    [active |-> FALSE, activateAt |-> -1, pos |-> 0, vel |-> 0,
     color |-> CRGB(255, 255, 255)]

\* 8-bit signed arithmetic of int8_t members.
I8(x) == ((x + 128) % 256) - 128

\* F applied to the value of x: the iterations of a C loop run one after the
\* other, so each iteration of a recursive operator starts from a computed
\* value (TLC would otherwise pass the unevaluated expression along).
Then(x, F(_)) == CHOOSE r \in {F(v) : v \in {x}} : TRUE

----------------------------------------------------------------------------
(* FastLED, as far as the sketch uses it.  s is a record of the globals. *)

FastLED_show(s) ==
    [s EXCEPT !.shows = @ + 1,
              !.commits = Append(@, [br |-> s.hwBrightness, strip |-> s.ledStrip_])]

FastLED_setBrightness(s, b) == [s EXCEPT !.hwBrightness = b]

\* FastLED.clear() blanks the data of every registered controller, no show.
FastLED_clear(s) == [s EXCEPT !.ledStrip_ = AllBlack, !.ledAtom_ = Black]

----------------------------------------------------------------------------
(* Helpers of the sketch *)

showLeds_KeepsFlag(s) == FastLED_show(s)

showLeds(s) == [FastLED_show(s) EXCEPT !.refreshNeeded_ = FALSE]

clearLedStrip(s) == [s EXCEPT !.ledStrip_ = AllBlack]

clearSprites_KeepsSchedule(s) ==
    [s EXCEPT !.sprites_ = [i \in SpriteIdx |-> [s.sprites_[i] EXCEPT !.active = FALSE]]]

clearSprites(s) ==
    [s EXCEPT !.sprites_ =
        [i \in SpriteIdx |-> [s.sprites_[i] EXCEPT !.active = FALSE, !.activateAt = -1]]]

NextCycleNr_HoldPlusOne(s) == (s.cycleNr_ + 1) % (s.renderCyclesHold_ + 1)

\* The cycle number after a procedure call of a renderer.
NextCycleNr_NoWrap(s) == s.cycleNr_ + 1

NextCycleNr(s) == (s.cycleNr_ + 1) % s.renderCyclesHold_

UpdateSprite_LateDeactivation(s, stepNr, k) ==
    LET sp0 == s.sprites_[k]
        sp1 == IF sp0.activateAt = stepNr THEN [sp0 EXCEPT !.active = TRUE] ELSE sp0
        pos2 == I8(sp1.pos + sp1.vel)
        sp2 == [sp1 EXCEPT !.pos = pos2,
                           !.color = nscale8_video(sp1.color, 230),
                           !.active = ~(pos2 < 0 \/ pos2 > NUM_LEDS)]
        strip == IF sp1.pos >= 0 /\ sp1.pos < NUM_LEDS
                 THEN [s.ledStrip_ EXCEPT ![sp1.pos] = sp1.color]
                 ELSE s.ledStrip_
    IN  IF sp1.active
        THEN [s EXCEPT !.sprites_[k] = sp2, !.ledStrip_ = strip]
        ELSE [s EXCEPT !.sprites_[k] = sp1]

UpdateSprite_FirstWriteWins(s, stepNr, k) ==
    LET sp0 == s.sprites_[k]
        sp1 == IF sp0.activateAt = stepNr THEN [sp0 EXCEPT !.active = TRUE] ELSE sp0
        pos2 == I8(sp1.pos + sp1.vel)
        sp2 == [sp1 EXCEPT !.pos = pos2,
                           !.color = nscale8_video(sp1.color, 230),
                           !.active = ~(pos2 < 0 \/ pos2 >= NUM_LEDS)]
        strip == IF sp1.pos >= 0 /\ sp1.pos < NUM_LEDS /\ s.ledStrip_[sp1.pos] = Black
                 THEN [s.ledStrip_ EXCEPT ![sp1.pos] = sp1.color]
                 ELSE s.ledStrip_
    IN  IF sp1.active
        THEN [s EXCEPT !.sprites_[k] = sp2, !.ledStrip_ = strip]
        ELSE [s EXCEPT !.sprites_[k] = sp1]

\* One iteration of the loop over the sprite array in drawAndUpdateSprites.
UpdateSprite(s, stepNr, k) ==
    LET sp0 == s.sprites_[k]
        sp1 == IF sp0.activateAt = stepNr THEN [sp0 EXCEPT !.active = TRUE] ELSE sp0
        pos2 == I8(sp1.pos + sp1.vel)
        sp2 == [sp1 EXCEPT !.pos = pos2,
                           !.color = nscale8_video(sp1.color, 230),
                           !.active = ~(pos2 < 0 \/ pos2 >= NUM_LEDS)]
        strip == IF sp1.pos >= 0 /\ sp1.pos < NUM_LEDS
                 THEN [s.ledStrip_ EXCEPT ![sp1.pos] = sp1.color]
                 ELSE s.ledStrip_
    IN  IF sp1.active
        THEN [s EXCEPT !.sprites_[k] = sp2, !.ledStrip_ = strip]
        ELSE [s EXCEPT !.sprites_[k] = sp1]

RECURSIVE UpdateSpritesFrom(_, _, _)
UpdateSpritesFrom(s, stepNr, k) ==
    IF k >= RENDER_SPRITES_NUM_SPRITES_MAX
    THEN s
    ELSE Then(UpdateSprite(s, stepNr, k),
              LAMBDA v : UpdateSpritesFrom(v, stepNr, k + 1))

drawAndUpdateSprites(s, stepNr) == UpdateSpritesFrom(clearLedStrip(s), stepNr, 0)

\* The iterations i .. numSteps - 1 of the loop of fadeBrightness(), curBr
\* being the brightness of iteration i (the range is halved, so that the
\* operator nests only a few levels deep).
RECURSIVE FadeSteps(_, _, _, _, _)
FadeSteps(s, curBr, brStep, i, numSteps) ==
    IF i >= numSteps
    THEN s
    ELSE IF numSteps - i = 1
    THEN FastLED_show(FastLED_setBrightness(s, curBr))
    ELSE LET n == (numSteps - i) \div 2
         IN  Then(FadeSteps(s, curBr, brStep, i, i + n),
                  LAMBDA v : FadeSteps(v, U8(curBr + n * brStep), brStep, i + n, numSteps))

fadeBrightness_OneStepShort(s, startBr, endBr) ==
    IF startBr <= endBr
    THEN FadeSteps(s, startBr, 1, 0, U8(endBr - startBr))
    ELSE FadeSteps(s, startBr, -1, 0, U8(startBr - endBr))

fadeBrightness(s, startBr, endBr) ==
    IF startBr <= endBr
    THEN FadeSteps(s, startBr, 1, 0, U8(endBr - startBr + 1))
    ELSE FadeSteps(s, startBr, -1, 0, U8(startBr - endBr + 1))

----------------------------------------------------------------------------
(* Renderers *)

renderConstant_AlwaysShows(s) ==
    showLeds([s EXCEPT !.ledStrip_ = [ledNr \in LedIdx |-> s.constantColor]])

renderConstant(s) ==
    IF s.refreshNeeded_
    THEN showLeds([s EXCEPT !.ledStrip_ = [ledNr \in LedIdx |-> s.constantColor]])
    ELSE s

\* The tail every animated renderer shares: show if needed, advance the cycle.
ShowAndAdvance(s) ==
    LET s1 == IF s.refreshNeeded_ THEN showLeds(s) ELSE s
    IN  [s1 EXCEPT !.cycleNr_ = NextCycleNr(s)]

RenderDue_IgnoresCycle(s) == ~s.paused_

RenderDue_IgnoresPause(s) == s.cycleNr_ = 0

\* The condition under which an animated renderer takes a render step.
RenderDue(s) == s.cycleNr_ = 0 /\ ~s.paused_

renderGradient(s) ==
    LET s1 == IF RenderDue(s)
              THEN [s EXCEPT !.refreshNeeded_ = TRUE,
                             !.rendered = TRUE,
                             !.ledStrip_ = [ledNr \in LedIdx |-> CHSV(s.hueBase_, 255, 255)],
                             !.hueBase_ = U8(s.hueBase_ + RENDER_GRADIENT_HUE_STEP)]
              ELSE s
    IN  ShowAndAdvance(s1)

renderChase_AdvanceFirst(s) ==
    LET h == IF s.dirLeft_
             THEN U8(s.hueBase_ + RENDER_CHASE_HUE_STEP)
             ELSE U8(s.hueBase_ - RENDER_CHASE_HUE_STEP)
        s1 == IF RenderDue(s)
              THEN [s EXCEPT !.refreshNeeded_ = TRUE,
                             !.rendered = TRUE,
                             !.ledStrip_ = [ledNr \in LedIdx |->
                                 CHSV(U8(h + ledNr * RENDER_CHASE_HUE_STEP), 255, 255)],
                             !.hueBase_ = h]
              ELSE s
    IN  ShowAndAdvance(s1)

renderChase_OneWay(s) ==
    LET s1 == IF RenderDue(s)
              THEN [s EXCEPT !.refreshNeeded_ = TRUE,
                             !.rendered = TRUE,
                             !.ledStrip_ = [ledNr \in LedIdx |->
                                 CHSV(U8(s.hueBase_ + ledNr * RENDER_CHASE_HUE_STEP), 255, 255)],
                             !.hueBase_ = U8(s.hueBase_ + RENDER_CHASE_HUE_STEP)]
              ELSE s
    IN  ShowAndAdvance(s1)

renderChase(s) ==
    LET s1 == IF RenderDue(s)
              THEN [s EXCEPT !.refreshNeeded_ = TRUE,
                             !.rendered = TRUE,
                             !.ledStrip_ = [ledNr \in LedIdx |->
                                 CHSV(U8(s.hueBase_ + ledNr * RENDER_CHASE_HUE_STEP), 255, 255)],
                             !.hueBase_ = IF s.dirLeft_
                                          THEN U8(s.hueBase_ + RENDER_CHASE_HUE_STEP)
                                          ELSE U8(s.hueBase_ - RENDER_CHASE_HUE_STEP)]
              ELSE s
    IN  ShowAndAdvance(s1)

\* The slot a new sprite goes to: the first inactive one, or none (-1).
FreeSlot(sprites) ==
    IF \E i \in SpriteIdx : ~sprites[i].active
    THEN CHOOSE i \in SpriteIdx :
            /\ ~sprites[i].active
            /\ \A j \in SpriteIdx : j < i => sprites[j].active
    ELSE -1

SpawnSprite_OverwritesWhenFull(s, rnd) ==
    LET sp == [active |-> TRUE, activateAt |-> -1, pos |-> NUM_LEDS \div 2,
               vel |-> rnd.vel, color |-> rnd.color]
        i == FreeSlot(s.sprites_)
    IN  IF rnd.spawn THEN [s EXCEPT !.sprites_[IF i >= 0 THEN i ELSE 0] = sp] ELSE s

\* rnd holds the results of random(): spawn is random(0, 100) < 30, vel is
\* 2 * random(0, 2) - 1, color the CRGB that CHSV(random, random, random) gives.
SpawnSprite(s, rnd) ==
    LET sp == [active |-> TRUE, activateAt |-> -1, pos |-> NUM_LEDS \div 2,
               vel |-> rnd.vel, color |-> rnd.color]
        i == FreeSlot(s.sprites_)
    IN  IF rnd.spawn /\ i >= 0 THEN [s EXCEPT !.sprites_[i] = sp] ELSE s

renderSprite(s, rnd) ==
    LET s1 == IF RenderDue(s)
              THEN drawAndUpdateSprites(
                       SpawnSprite([s EXCEPT !.refreshNeeded_ = TRUE, !.rendered = TRUE],
                                   rnd), 0)
              ELSE s
    IN  ShowAndAdvance(s1)

SparkleStep_SkipDark(s) ==
    IF s.sparkleState_ = 1
    THEN IF s.sparkleValue_ < 255 - RENDER_SPARKLE_LIGHTNESS_STEP
         THEN [s EXCEPT !.sparkleValue_ = U8(@ + RENDER_SPARKLE_LIGHTNESS_STEP)]
         ELSE [s EXCEPT !.sparkleValue_ = 255, !.sparkleState_ = -1]
    ELSE IF s.sparkleValue_ >= RENDER_SPARKLE_LIGHTNESS_MIN + RENDER_SPARKLE_LIGHTNESS_STEP
    THEN [s EXCEPT !.sparkleValue_ = U8(@ - RENDER_SPARKLE_LIGHTNESS_STEP)]
    ELSE [s EXCEPT !.sparkleValue_ = RENDER_SPARKLE_LIGHTNESS_MIN,
                   !.sparkleState_ = 1,
                   !.sparkleColorIdx_ = (@ + 1) % 4]

SparkleStep_FallsBelowMin(s) ==
    IF s.sparkleState_ = 1
    THEN IF s.sparkleValue_ < 255 - RENDER_SPARKLE_LIGHTNESS_STEP
         THEN [s EXCEPT !.sparkleValue_ = U8(@ + RENDER_SPARKLE_LIGHTNESS_STEP)]
         ELSE [s EXCEPT !.sparkleValue_ = 255, !.sparkleState_ = -1]
    ELSE IF s.sparkleState_ = -1
    THEN IF s.sparkleValue_ >= RENDER_SPARKLE_LIGHTNESS_MIN
         THEN [s EXCEPT !.sparkleValue_ = U8(@ - RENDER_SPARKLE_LIGHTNESS_STEP)]
         ELSE [s EXCEPT !.sparkleValue_ = 0, !.sparkleState_ = 0]
    ELSE [s EXCEPT !.sparkleValue_ = RENDER_SPARKLE_LIGHTNESS_MIN,
                   !.sparkleState_ = 1,
                   !.sparkleColorIdx_ = (@ + 1) % 4]

\* The lightness state machine of renderSparkle: <<value, state, colorIdx>>.
SparkleStep(s) ==
    IF s.sparkleState_ = 1
    THEN IF s.sparkleValue_ < 255 - RENDER_SPARKLE_LIGHTNESS_STEP
         THEN [s EXCEPT !.sparkleValue_ = U8(@ + RENDER_SPARKLE_LIGHTNESS_STEP)]
         ELSE [s EXCEPT !.sparkleValue_ = 255, !.sparkleState_ = -1]
    ELSE IF s.sparkleState_ = -1
    THEN IF s.sparkleValue_ >= RENDER_SPARKLE_LIGHTNESS_MIN + RENDER_SPARKLE_LIGHTNESS_STEP
         THEN [s EXCEPT !.sparkleValue_ = U8(@ - RENDER_SPARKLE_LIGHTNESS_STEP)]
         ELSE [s EXCEPT !.sparkleValue_ = 0, !.sparkleState_ = 0]
    ELSE [s EXCEPT !.sparkleValue_ = RENDER_SPARKLE_LIGHTNESS_MIN,
                   !.sparkleState_ = 1,
                   !.sparkleColorIdx_ = (@ + 1) % 4]

renderSparkle(s) ==
    LET s1 == IF RenderDue(s)
              THEN LET t == SparkleStep([s EXCEPT !.refreshNeeded_ = TRUE, !.rendered = TRUE])
                   IN  [t EXCEPT !.ledStrip_ = [ledNr \in LedIdx |->
                           IF ledNr % 4 = t.sparkleColorIdx_
                           THEN CHSV(SPARKLE_COLOR_HUE[t.sparkleColorIdx_ + 1],
                                     SPARKLE_COLOR_SAT[t.sparkleColorIdx_ + 1],
                                     t.sparkleValue_)
                           ELSE CHSV(0, 0, 0)]]
              ELSE s
    IN  ShowAndAdvance(s1)

\* The switch over lightMode_ at the end of loop().
render(s, rnd) ==
    CASE s.lightMode_ = CONSTANT_MODE -> renderConstant(s)
      [] s.lightMode_ = GRADIENT -> renderGradient(s)
      [] s.lightMode_ = CHASE -> renderChase(s)
      [] s.lightMode_ = SPRITE -> renderSprite(s, rnd)
      [] s.lightMode_ = SPARKLE -> renderSparkle(s)

----------------------------------------------------------------------------
(* Startup *)

StartupSprites ==
    [i \in SpriteIdx |->
        CASE i = 0 -> [active |-> TRUE, activateAt |-> 0, pos |-> NUM_LEDS \div 2,
                       vel |-> 0, color |-> CRGB(255, 255, 0)]
          [] i = 1 -> [active |-> FALSE, activateAt |-> 5, pos |-> (NUM_LEDS \div 2) - 1,
                       vel |-> -1, color |-> CRGB(32, 32, 128)]
          [] i = 2 -> [active |-> FALSE, activateAt |-> 5, pos |-> (NUM_LEDS \div 2) + 1,
                       vel |-> 1, color |-> CRGB(32, 32, 128)]
          [] i = 3 -> [active |-> FALSE, activateAt |-> 10, pos |-> (NUM_LEDS \div 2) - 1,
                       vel |-> -1, color |-> CRGB(128, 0, 0)]
          [] i = 4 -> [active |-> FALSE, activateAt |-> 10, pos |-> (NUM_LEDS \div 2) + 1,
                       vel |-> 1, color |-> CRGB(128, 0, 0)]
          [] i = 5 -> [active |-> FALSE, activateAt |-> 15, pos |-> (NUM_LEDS \div 2) - 1,
                       vel |-> -1, color |-> CRGB(0, 128, 0)]
          [] i = 6 -> [active |-> FALSE, activateAt |-> 15, pos |-> (NUM_LEDS \div 2) + 1,
                       vel |-> 1, color |-> CRGB(0, 128, 0)]
          [] OTHER -> LedSprite]

RECURSIVE AnimationSteps(_, _)
AnimationSteps(s, stepNr) ==
    IF stepNr >= 30
    THEN s
    ELSE Then(FastLED_show(drawAndUpdateSprites(s, stepNr)),
              LAMBDA v : AnimationSteps(v, stepNr + 1))

startupAnimation(s) ==
    LET s1 == AnimationSteps([s EXCEPT !.sprites_ = StartupSprites], 0)
        s2 == fadeBrightness(s1, s1.brightness_, 0)
        s3 == clearLedStrip(clearSprites(s2))
    IN  FastLED_show(FastLED_setBrightness(s3, s3.brightness_))

setup(s) ==
    LET s1 == FastLED_setBrightness(FastLED_clear(s), s.brightness_)
        s2 == FastLED_show([s1 EXCEPT !.ledAtom_ = COLOR_OFF])
    IN  startupAnimation(s2)

----------------------------------------------------------------------------
(* IR input *)

irCmdRepeatable_ModeChange(v) ==
    \/ v = IR_BRIGHTNESS_DEC
    \/ v = IR_BRIGHTNESS_INC
    \/ v = IR_SLOWER
    \/ v = IR_FASTER
    \/ v = IR_MODE_CHANGE

\* Is repetition of the previous command allowed?
irCmdRepeatable(v) ==
    \/ v = IR_BRIGHTNESS_DEC
    \/ v = IR_BRIGHTNESS_INC
    \/ v = IR_SLOWER
    \/ v = IR_FASTER

readIrCommand_StaleFlag(s, ev) ==
    IF ev.kind = "none"
    THEN s
    ELSE IF ev.kind = "repeat"
    THEN IF ~irCmdRepeatable(s.irCmdValue_)
         THEN [s EXCEPT !.irCmdAvailable_ = FALSE, !.irCmdValue_ = 0]
         ELSE [s EXCEPT !.irCmdAvailable_ = TRUE]
    ELSE [s EXCEPT !.irCmdAvailable_ = TRUE, !.irCmdValue_ = ev.value]

\* ev is what irRecv_.decode() delivers: kind "none" (nothing decoded), "cmd"
\* (a code, in ev.value) or "repeat" (a repeat frame).
readIrCommand(s, ev) ==
    IF ev.kind = "none"
    THEN [s EXCEPT !.irCmdAvailable_ = FALSE]
    ELSE IF ev.kind = "repeat"
    THEN IF ~irCmdRepeatable(s.irCmdValue_)
         THEN [s EXCEPT !.irCmdAvailable_ = FALSE, !.irCmdValue_ = 0]
         ELSE [s EXCEPT !.irCmdAvailable_ = TRUE]
    ELSE [s EXCEPT !.irCmdAvailable_ = TRUE, !.irCmdValue_ = ev.value]

----------------------------------------------------------------------------
(* Command interpreter *)

BrightnessInc(b) ==
    LET x == U8(b + BRIGHTNESS_STEP)
    IN  IF x > BRIGHTNESS_MAX THEN BRIGHTNESS_MAX ELSE x

BrightnessDec_Wrapping(b) == U8(b - BRIGHTNESS_STEP)

BrightnessDec(b) ==
    LET x == U8(b - BRIGHTNESS_STEP)
    IN  IF x < BRIGHTNESS_MIN THEN BRIGHTNESS_MIN ELSE x

CyclesHoldSlower_Unclamped(h) == U8(h + RENDER_NUM_CYCLES_HOLD_STEP)

CyclesHoldSlower(h) ==
    LET x == U8(h + RENDER_NUM_CYCLES_HOLD_STEP)
    IN  IF x > RENDER_NUM_CYCLES_HOLD_MAX THEN RENDER_NUM_CYCLES_HOLD_MAX ELSE x

CyclesHoldFaster(h) ==
    LET x == U8(h - RENDER_NUM_CYCLES_HOLD_STEP)
    IN  IF x < RENDER_NUM_CYCLES_HOLD_MIN THEN RENDER_NUM_CYCLES_HOLD_MIN ELSE x

\* case t_LightMode::CONSTANT of the inner switch of case IR_MODE_CHANGE
ModeToGradient(s) ==
    [s EXCEPT !.lightMode_ = GRADIENT,
              !.renderCyclesHold_ = RENDER_GRADIENT_NUM_CYCLES_HOLD_INIT,
              !.cycleNr_ = 0,
              !.hueBase_ = 0]

ModeToChase_KeepCycleNr(s) ==
    [s EXCEPT !.lightMode_ = CHASE,
              !.renderCyclesHold_ = RENDER_CHASE_NUM_CYCLES_HOLD_INIT,
              !.hueBase_ = 0]

\* case t_LightMode::GRADIENT
ModeToChase(s) ==
    [s EXCEPT !.lightMode_ = CHASE,
              !.renderCyclesHold_ = RENDER_CHASE_NUM_CYCLES_HOLD_INIT,
              !.cycleNr_ = 0,
              !.hueBase_ = 0]

ModeToSprite_Skipped(s) ==
    [s EXCEPT !.lightMode_ = SPARKLE,
              !.renderCyclesHold_ = RENDER_SPRITES_NUM_CYCLES_HOLD_INIT,
              !.cycleNr_ = 0]

\* case t_LightMode::CHASE
ModeToSprite(s) ==
    [s EXCEPT !.lightMode_ = SPRITE,
              !.renderCyclesHold_ = RENDER_SPRITES_NUM_CYCLES_HOLD_INIT,
              !.cycleNr_ = 0]

\* case t_LightMode::SPRITE
ModeToSparkle(s) ==
    [s EXCEPT !.lightMode_ = SPARKLE,
              !.cycleNr_ = 0,
              !.sparkleValue_ = RENDER_SPARKLE_LIGHTNESS_MIN,
              !.sparkleColorIdx_ = 0,
              !.sparkleState_ = 1]

\* case t_LightMode::SPARKLE
ModeToConstant(s) == [s EXCEPT !.lightMode_ = CONSTANT_MODE]

\* The inner switch over lightMode_ of case IR_MODE_CHANGE.
ModeChange(s) ==
    CASE s.lightMode_ = CONSTANT_MODE -> ModeToGradient(s)
      [] s.lightMode_ = GRADIENT -> ModeToChase(s)
      [] s.lightMode_ = CHASE -> ModeToSprite(s)
      [] s.lightMode_ = SPRITE -> ModeToSparkle(s)
      [] s.lightMode_ = SPARKLE -> ModeToConstant(s)

CmdModeChange_KeepPaused(s) == ModeChange([s EXCEPT !.refreshNeeded_ = TRUE])

\* case IR_MODE_CHANGE
CmdModeChange(s) == ModeChange([s EXCEPT !.refreshNeeded_ = TRUE, !.paused_ = FALSE])

Animated(m) == m = GRADIENT \/ m = CHASE \/ m = SPRITE \/ m = SPARKLE

CmdColor_AnyMode(s, col) == [s EXCEPT !.constantColor = col, !.refreshNeeded_ = TRUE]

\* cases IR_RED .. IR_WHITE
CmdColor(s, col) ==
    IF s.lightMode_ = CONSTANT_MODE
    THEN [s EXCEPT !.constantColor = col, !.refreshNeeded_ = TRUE]
    ELSE s

\* The switch over irCmdValue_.
CmdSwitch(s) ==
    LET v == s.irCmdValue_
    IN  CASE v = IR_BRIGHTNESS_INC ->
                LET b == BrightnessInc(s.brightness_)
                IN  [FastLED_setBrightness(s, b) EXCEPT !.brightness_ = b,
                                                        !.refreshNeeded_ = TRUE]
          [] v = IR_BRIGHTNESS_DEC ->
                LET b == BrightnessDec(s.brightness_)
                IN  [FastLED_setBrightness(s, b) EXCEPT !.brightness_ = b,
                                                        !.refreshNeeded_ = TRUE]
          [] v = IR_SLOWER ->
                [s EXCEPT !.renderCyclesHold_ = CyclesHoldSlower(@)]
          [] v = IR_FASTER ->
                [s EXCEPT !.renderCyclesHold_ = CyclesHoldFaster(@), !.paused_ = FALSE]
          [] v = IR_LEFT ->
                IF s.lightMode_ = CHASE /\ (~s.dirLeft_ \/ s.paused_)
                THEN [s EXCEPT !.dirLeft_ = TRUE, !.paused_ = FALSE, !.cycleNr_ = 0]
                ELSE s
          [] v = IR_RIGHT ->
                IF s.lightMode_ = CHASE /\ (s.dirLeft_ \/ s.paused_)
                THEN [s EXCEPT !.dirLeft_ = FALSE, !.paused_ = FALSE, !.cycleNr_ = 0]
                ELSE s
          [] v = IR_MODE_CHANGE -> CmdModeChange(s)
          [] v = IR_PLAY ->
                IF Animated(s.lightMode_) THEN [s EXCEPT !.paused_ = FALSE] ELSE s
          [] v = IR_PAUSE ->
                IF Animated(s.lightMode_) THEN [s EXCEPT !.paused_ = TRUE] ELSE s
          [] v = IR_RED -> CmdColor(s, CRGB(255, 0, 0))
          [] v = IR_GREEN -> CmdColor(s, CRGB(0, 255, 0))
          [] v = IR_YELLOW -> CmdColor(s, CRGB(255, 255, 0))
          [] v = IR_BLUE -> CmdColor(s, CRGB(0, 0, 255))
          [] v = IR_WHITE -> CmdColor(s, CRGB(255, 255, 255))
          [] OTHER -> s

processUserInputColorEffects_LeftAlways(s) ==
    IF s.irCmdValue_ = IR_LEFT /\ s.lightMode_ = CHASE
    THEN [s EXCEPT !.cmdApplied = TRUE, !.dirLeft_ = TRUE, !.paused_ = FALSE, !.cycleNr_ = 0]
    ELSE CmdSwitch([s EXCEPT !.cmdApplied = TRUE])

processUserInputColorEffects_SlowerUnpauses(s) ==
    IF s.irCmdValue_ = IR_SLOWER
    THEN [s EXCEPT !.cmdApplied = TRUE,
                   !.renderCyclesHold_ = CyclesHoldSlower(@),
                   !.paused_ = FALSE]
    ELSE CmdSwitch([s EXCEPT !.cmdApplied = TRUE])

processUserInputColorEffects_IncNotSent(s) ==
    IF s.irCmdValue_ = IR_BRIGHTNESS_INC
    THEN [s EXCEPT !.cmdApplied = TRUE,
                   !.brightness_ = BrightnessInc(@),
                   !.refreshNeeded_ = TRUE]
    ELSE CmdSwitch([s EXCEPT !.cmdApplied = TRUE])

processUserInputColorEffects_PauseAnyMode(s) ==
    IF s.irCmdValue_ = IR_PAUSE
    THEN [s EXCEPT !.cmdApplied = TRUE, !.paused_ = TRUE]
    ELSE CmdSwitch([s EXCEPT !.cmdApplied = TRUE])

processUserInputColorEffects(s) == CmdSwitch([s EXCEPT !.cmdApplied = TRUE])

----------------------------------------------------------------------------
(* Device state machine *)

NextDeviceState_SkipEco(d) ==
    CASE d = OFF -> ON
      [] d = ON -> OFF
      [] d = ECO -> OFF

\* The state switchDeviceState() goes to.
NextDeviceState(d) ==
    CASE d = OFF -> ON
      [] d = ON -> ECO
      [] d = ECO -> OFF

SwitchOn_KeepPaused(s) ==
    LET s1 == FastLED_clear([s EXCEPT !.deviceState_ = NextDeviceState(OFF)])
        s2 == FastLED_setBrightness([s1 EXCEPT !.brightness_ = BRIGHTNESS_ON], BRIGHTNESS_ON)
    IN  [s2 EXCEPT !.ledAtom_ = COLOR_ON,
                   !.refreshNeeded_ = TRUE,
                   !.cycleNr_ = 0,
                   !.hueBase_ = 0,
                   !.sparkleValue_ = RENDER_SPARKLE_LIGHTNESS_MIN,
                   !.sparkleColorIdx_ = 0,
                   !.sparkleState_ = 1]

SwitchOn_NoRefresh(s) ==
    LET s1 == FastLED_clear([s EXCEPT !.deviceState_ = NextDeviceState(OFF)])
        s2 == FastLED_setBrightness([s1 EXCEPT !.brightness_ = BRIGHTNESS_ON], BRIGHTNESS_ON)
    IN  [s2 EXCEPT !.ledAtom_ = COLOR_ON,
                   !.paused_ = FALSE,
                   !.cycleNr_ = 0,
                   !.hueBase_ = 0,
                   !.sparkleValue_ = RENDER_SPARKLE_LIGHTNESS_MIN,
                   !.sparkleColorIdx_ = 0,
                   !.sparkleState_ = 1]

\* case t_State::OFF
SwitchOn(s) ==
    LET s1 == FastLED_clear([s EXCEPT !.deviceState_ = NextDeviceState(OFF)])
        s2 == FastLED_setBrightness([s1 EXCEPT !.brightness_ = BRIGHTNESS_ON], BRIGHTNESS_ON)
    IN  [s2 EXCEPT !.ledAtom_ = COLOR_ON,
                   !.refreshNeeded_ = TRUE,
                   !.paused_ = FALSE,
                   !.cycleNr_ = 0,
                   !.hueBase_ = 0,
                   !.sparkleValue_ = RENDER_SPARKLE_LIGHTNESS_MIN,
                   !.sparkleColorIdx_ = 0,
                   !.sparkleState_ = 1]

SwitchEco_ResetsDirection(s) ==
    LET s1 == FastLED_clear([s EXCEPT !.deviceState_ = NextDeviceState(ON)])
        s2 == FastLED_setBrightness([s1 EXCEPT !.brightness_ = BRIGHTNESS_ECO], BRIGHTNESS_ECO)
    IN  [s2 EXCEPT !.ledAtom_ = COLOR_ECO,
                   !.refreshNeeded_ = TRUE,
                   !.paused_ = FALSE,
                   !.cycleNr_ = 0,
                   !.hueBase_ = 0,
                   !.dirLeft_ = TRUE]

\* case t_State::ON
SwitchEco(s) ==
    LET s1 == FastLED_clear([s EXCEPT !.deviceState_ = NextDeviceState(ON)])
        s2 == FastLED_setBrightness([s1 EXCEPT !.brightness_ = BRIGHTNESS_ECO], BRIGHTNESS_ECO)
    IN  [s2 EXCEPT !.ledAtom_ = COLOR_ECO,
                   !.refreshNeeded_ = TRUE,
                   !.paused_ = FALSE,
                   !.cycleNr_ = 0,
                   !.hueBase_ = 0]

SwitchOff_KeepsStrip(s) ==
    LET s1 == fadeBrightness([s EXCEPT !.deviceState_ = NextDeviceState(ECO)],
                             s.brightness_, 0)
        s2 == FastLED_setBrightness([s1 EXCEPT !.brightness_ = BRIGHTNESS_OFF],
                                    BRIGHTNESS_OFF)
    IN  FastLED_show([s2 EXCEPT !.ledAtom_ = COLOR_OFF])

\* case t_State::ECO
SwitchOff(s) ==
    LET s1 == fadeBrightness([s EXCEPT !.deviceState_ = NextDeviceState(ECO)],
                             s.brightness_, 0)
        s2 == FastLED_setBrightness([FastLED_clear(s1) EXCEPT !.brightness_ = BRIGHTNESS_OFF],
                                    BRIGHTNESS_OFF)
    IN  FastLED_show([s2 EXCEPT !.ledAtom_ = COLOR_OFF])

switchDeviceState(s) ==
    LET s1 == [s EXCEPT !.switched = TRUE]
    IN  CASE s.deviceState_ = OFF -> SwitchOn(s1)
          [] s.deviceState_ = ON -> SwitchEco(s1)
          [] s.deviceState_ = ECO -> SwitchOff(s1)

----------------------------------------------------------------------------
(* Main routine, one pass of loop() in its stages *)

\* After readIrCommand().
AfterRead(s, ev) ==
    readIrCommand([s EXCEPT !.shows = 0, !.commits = <<>>, !.switched = FALSE,
                            !.cmdApplied = FALSE, !.rendered = FALSE], ev)

irCmdOnOff_Stale(s) == s.irCmdValue_ = IR_ON_OFF

irCmdOnOff(s) == s.irCmdAvailable_ /\ s.irCmdValue_ = IR_ON_OFF

\* After the change of the device state, if any.
AfterSwitch(s, btn, ev) ==
    LET s1 == AfterRead(s, ev)
    IN  IF btn \/ irCmdOnOff(s1) THEN switchDeviceState(s1) ELSE s1

IsOnOrEco_Always(s) == TRUE

IsOnOrEco(s) == s.deviceState_ = ON \/ s.deviceState_ = ECO

AfterCommand_Exclusive(s, btn, ev) ==
    LET s2 == AfterSwitch(s, btn, ev)
    IN  IF ~s2.switched /\ IsOnOrEco(s2) /\ s2.irCmdAvailable_
        THEN processUserInputColorEffects(s2)
        ELSE s2

\* After the IR command has been processed, if any.
AfterCommand(s, btn, ev) ==
    LET s2 == AfterSwitch(s, btn, ev)
    IN  IF IsOnOrEco(s2) /\ s2.irCmdAvailable_
        THEN processUserInputColorEffects(s2)
        ELSE s2

\* The switch over lightMode_, while the device is ON or ECO.
RenderStage(c, rnd) == IF IsOnOrEco(c) THEN render(c, rnd) ELSE c

loop(s, btn, ev, rnd) == RenderStage(AfterCommand(s, btn, ev), rnd)

----------------------------------------------------------------------------
(* Inputs and history *)

\* Bounds of the model.
MaxSpawned == 2
MaxPasses == 4
MaxModePasses == 2
MaxPowerPasses == 1
\* The length of the run of BrightnessDown commands that decRun counts up to.
DecRunLen == 30
MaxChaseTicks == 60
\* The longest of the short fades that are examined on their own.
MaxFadeLen == 12

\* The codes the IR receiver may deliver.
IrCodes ==
    {IR_ON_OFF, IR_BRIGHTNESS_INC, IR_BRIGHTNESS_DEC, IR_MODE_CHANGE, IR_PLAY,
     IR_PAUSE, IR_SLOWER, IR_FASTER, IR_LEFT, IR_RIGHT, IR_RED, IR_GREEN,
     IR_YELLOW, IR_BLUE, IR_WHITE, IR_OTHER}

NoEvent == [kind |-> "none", value |-> 0]
RepeatEvent == [kind |-> "repeat", value |-> 0]
CmdEvent(c) == [kind |-> "cmd", value |-> c]

\* Results of random() in renderSprite: CHSV(0, 255, 255) is pure red and
\* CHSV(160, 255, 255) pure blue in FastLED's rainbow conversion.
NoSpawn == [spawn |-> FALSE, vel |-> 1, color |-> Black]
Randoms ==
    {NoSpawn} \cup
    [spawn : {TRUE}, vel : {-1, 1}, color : {CRGB(255, 0, 0), CRGB(0, 0, 255)}]

\* The results random() can have in a pass: renderSprite() calls it only
\* when it takes a render step (c is the state the renderer starts from).
RandomsOf(c) ==
    IF IsOnOrEco(c) /\ c.lightMode_ = SPRITE /\ RenderDue(c) /\ c.spawned < MaxSpawned
    THEN Randoms
    ELSE {NoSpawn}

\* The last n elements of a sequence.
LastN(q, n) == IF Len(q) <= n THEN q ELSE SubSeq(q, Len(q) - n + 1, Len(q))

Min(a, b) == IF a <= b THEN a ELSE b

\* The history variables after a pass that led from s to t.
History(s, t, btn, ev, rnd) ==
    [t EXCEPT
        !.inBtn = btn,
        !.inIr = ev.kind,
        !.lastCmd = IF ev.kind = "cmd" THEN ev.value ELSE s.lastCmd,
        !.spawned = IF rnd.spawn THEN s.spawned + 1 ELSE s.spawned,
        !.powerHist = IF t.switched
                      THEN LastN(Append(s.powerHist, s.deviceState_), 3)
                      ELSE s.powerHist,
        !.modeHist = IF t.cmdApplied /\ t.irCmdValue_ = IR_MODE_CHANGE
                     THEN LastN(Append(s.modeHist, s.lightMode_), 5)
                     ELSE s.modeHist,
        !.decRun = IF t.switched THEN 0
                   ELSE IF t.cmdApplied /\ t.irCmdValue_ = IR_BRIGHTNESS_DEC
                   THEN IF s.brightness_ = BRIGHTNESS_MAX THEN 1
                        ELSE IF s.decRun >= 1 THEN Min(s.decRun + 1, DecRunLen)
                        ELSE 0
                   ELSE IF t.brightness_ # s.brightness_ THEN 0 ELSE s.decRun]

\* One pass of loop() and the history it leaves.
Step(s, btn, ev, rnd) == History(s, loop(s, btn, ev, rnd), btn, ev, rnd)

----------------------------------------------------------------------------
(* The state machine *)

\* The globals (and the history) as one record, the argument of the operators.
Globals ==
    [deviceState_ |-> deviceState_, lightMode_ |-> lightMode_,
     brightness_ |-> brightness_, refreshNeeded_ |-> refreshNeeded_,
     paused_ |-> paused_, renderCyclesHold_ |-> renderCyclesHold_,
     cycleNr_ |-> cycleNr_, hueBase_ |-> hueBase_, dirLeft_ |-> dirLeft_,
     sparkleColorIdx_ |-> sparkleColorIdx_, sparkleValue_ |-> sparkleValue_,
     sparkleState_ |-> sparkleState_, constantColor |-> constantColor,
     sprites_ |-> sprites_, ledStrip_ |-> ledStrip_, ledAtom_ |-> ledAtom_,
     irCmdAvailable_ |-> irCmdAvailable_, irCmdValue_ |-> irCmdValue_,
     hwBrightness |-> hwBrightness, shows |-> shows, commits |-> commits,
     switched |-> switched,
     cmdApplied |-> cmdApplied, rendered |-> rendered, inBtn |-> inBtn,
     inIr |-> inIr, lastCmd |-> lastCmd, powerHist |-> powerHist,
     modeHist |-> modeHist, decRun |-> decRun, spawned |-> spawned]

\* The initialisers of the globals; setup() has not run yet.
Constructed ==
    [deviceState_ |-> OFF, lightMode_ |-> SPARKLE,
     brightness_ |-> BRIGHTNESS_OFF, refreshNeeded_ |-> FALSE,
     paused_ |-> FALSE, renderCyclesHold_ |-> RENDER_SPARKLE_NUM_CYCLES_HOLD_INIT,
     cycleNr_ |-> 0, hueBase_ |-> 0, dirLeft_ |-> TRUE,
     sparkleColorIdx_ |-> 0, sparkleValue_ |-> RENDER_SPARKLE_LIGHTNESS_MIN,
     sparkleState_ |-> 1, constantColor |-> RENDER_CONSTANT_COLOR_DEFAULT,
     sprites_ |-> [i \in SpriteIdx |-> LedSprite], ledStrip_ |-> AllBlack,
     ledAtom_ |-> Black, irCmdAvailable_ |-> FALSE, irCmdValue_ |-> 0,
     hwBrightness |-> 255, shows |-> 0, commits |-> <<>>, switched |-> FALSE,
     cmdApplied |-> FALSE, rendered |-> FALSE, inBtn |-> FALSE, inIr |-> "none",
     lastCmd |-> 0, powerHist |-> <<>>, modeHist |-> <<>>, decRun |-> 0,
     spawned |-> 0]

\* The globals are t.
Is(t) ==
    /\ deviceState_ = t.deviceState_
    /\ lightMode_ = t.lightMode_
    /\ brightness_ = t.brightness_
    /\ refreshNeeded_ = t.refreshNeeded_
    /\ paused_ = t.paused_
    /\ renderCyclesHold_ = t.renderCyclesHold_
    /\ cycleNr_ = t.cycleNr_
    /\ hueBase_ = t.hueBase_
    /\ dirLeft_ = t.dirLeft_
    /\ sparkleColorIdx_ = t.sparkleColorIdx_
    /\ sparkleValue_ = t.sparkleValue_
    /\ sparkleState_ = t.sparkleState_
    /\ constantColor = t.constantColor
    /\ sprites_ = t.sprites_
    /\ ledStrip_ = t.ledStrip_
    /\ ledAtom_ = t.ledAtom_
    /\ irCmdAvailable_ = t.irCmdAvailable_
    /\ irCmdValue_ = t.irCmdValue_
    /\ hwBrightness = t.hwBrightness
    /\ shows = t.shows
    /\ commits = t.commits
    /\ switched = t.switched
    /\ cmdApplied = t.cmdApplied
    /\ rendered = t.rendered
    /\ inBtn = t.inBtn
    /\ inIr = t.inIr
    /\ lastCmd = t.lastCmd
    /\ powerHist = t.powerHist
    /\ modeHist = t.modeHist
    /\ decRun = t.decRun
    /\ spawned = t.spawned

\* The globals become t.
Becomes(t) ==
    /\ deviceState_' = t.deviceState_
    /\ lightMode_' = t.lightMode_
    /\ brightness_' = t.brightness_
    /\ refreshNeeded_' = t.refreshNeeded_
    /\ paused_' = t.paused_
    /\ renderCyclesHold_' = t.renderCyclesHold_
    /\ cycleNr_' = t.cycleNr_
    /\ hueBase_' = t.hueBase_
    /\ dirLeft_' = t.dirLeft_
    /\ sparkleColorIdx_' = t.sparkleColorIdx_
    /\ sparkleValue_' = t.sparkleValue_
    /\ sparkleState_' = t.sparkleState_
    /\ constantColor' = t.constantColor
    /\ sprites_' = t.sprites_
    /\ ledStrip_' = t.ledStrip_
    /\ ledAtom_' = t.ledAtom_
    /\ irCmdAvailable_' = t.irCmdAvailable_
    /\ irCmdValue_' = t.irCmdValue_
    /\ hwBrightness' = t.hwBrightness
    /\ shows' = t.shows
    /\ commits' = t.commits
    /\ switched' = t.switched
    /\ cmdApplied' = t.cmdApplied
    /\ rendered' = t.rendered
    /\ inBtn' = t.inBtn
    /\ inIr' = t.inIr
    /\ lastCmd' = t.lastCmd
    /\ powerHist' = t.powerHist
    /\ modeHist' = t.modeHist
    /\ decRun' = t.decRun
    /\ spawned' = t.spawned

Init ==
    /\ pc = "setup"
    /\ passes = 0
    /\ call = <<>>
    /\ Is(Constructed)

\* setup(): runs once, before the first pass of loop().
Setup ==
    /\ pc = "setup"
    /\ pc' = "loop"
    /\ \E t \in {setup(Globals)} : Becomes(t)
    /\ UNCHANGED <<passes, call>>

\* One pass of loop() with the inputs btn (button released) and ev (IR event).
Pass(btn, ev) ==
    /\ pc = "loop"
    /\ pc' = pc
    /\ UNCHANGED call
    /\ \E g \in {Globals} :
          \E t \in {Step(g, btn, ev, rnd) : rnd \in RandomsOf(AfterCommand(g, btn, ev))} :
             Becomes(t)

\* A pass in which the IR receiver has decoded nothing.
LoopIdle(buttons) ==
    \E btn \in buttons : Pass(btn, NoEvent)

\* A pass in which the IR receiver has decoded one of the given codes.
LoopCmd(buttons, codes) ==
    \E btn \in buttons, c \in codes : Pass(btn, CmdEvent(c))

\* A pass in which the IR receiver has decoded a repeat frame.
LoopRepeat(buttons) ==
    \E btn \in buttons : Pass(btn, RepeatEvent)

\* A pass counted against a bound of n passes.
Counted(n) == passes < n /\ passes' = passes + 1

\* Every input, for a bounded number of passes after setup().
Next ==
    \/ Setup
    \/ Counted(MaxPasses) /\ LoopIdle(BOOLEAN)
    \/ Counted(MaxPasses) /\ LoopCmd(BOOLEAN, IrCodes)
    \/ Counted(MaxPasses) /\ LoopRepeat(BOOLEAN)

Spec == Init /\ [][Next]_vars

----------------------------------------------------------------------------
(* Runs that start in a state some input sequence leads to *)

\* The results of random() in a pass with the inputs x: x[3] if x names them
\* and the pass calls random(), else no sprite is spawned.
RndOf(s, x) ==
    IF /\ Len(x) >= 3
       /\ \E c \in {AfterCommand(s, x[1], x[2])} :
             IsOnOrEco(c) /\ c.lightMode_ = SPRITE /\ RenderDue(c)
    THEN x[3]
    ELSE NoSpawn

\* The state after the passes with the inputs q[1], q[2], ...
RECURSIVE Run(_, _)
Run(s, q) ==
    IF q = <<>>
    THEN s
    ELSE Then(Step(s, Head(q)[1], Head(q)[2], RndOf(s, Head(q))),
              LAMBDA v : Run(v, Tail(q)))

\* n times the input x.
RECURSIVE Times(_, _)
Times(n, x) == IF n = 0 THEN <<>> ELSE <<x>> \o Times(n - 1, x)

KeyOnOff == <<FALSE, CmdEvent(IR_ON_OFF)>>
KeyMode == <<FALSE, CmdEvent(IR_MODE_CHANGE)>>

\* The state the sequence q of inputs leads to after setup().
After(q) == Run(setup(Constructed), q)

\* After setup(): nothing; or the device switched on, the mode changed j
\* times, and the device state switched e more times.
ModeScenarios ==
    {<<>>} \cup
    {<<KeyOnOff>> \o Times(j, KeyMode) \o Times(e, KeyOnOff) : j \in 0 .. 9, e \in 0 .. 2} \cup
    {<<KeyOnOff>> \o Times(e, KeyOnOff) : e \in 3 .. 4}

InitModes ==
    /\ pc = "loop"
    /\ passes = 0
    /\ call = <<>>
    /\ \E q \in ModeScenarios : Is(After(q))

\* Every input, for a bounded number of passes, in every mode and device state.
NextModes ==
    \/ Counted(MaxModePasses) /\ LoopIdle(BOOLEAN)
    \/ Counted(MaxModePasses) /\ LoopCmd(BOOLEAN, IrCodes)
    \/ Counted(MaxModePasses) /\ LoopRepeat(BOOLEAN)

SpecModes == InitModes /\ [][NextModes]_vars

\* The CONSTANT mode, device ON: no animation runs.
InitBright ==
    /\ pc = "loop"
    /\ passes = 0
    /\ call = <<>>
    /\ Is(After(<<KeyOnOff, KeyMode>>))

BrightCodes == {IR_BRIGHTNESS_INC, IR_BRIGHTNESS_DEC, IR_ON_OFF, IR_OTHER}

\* Any number of passes with the brightness and power inputs.
NextBright ==
    \/ UNCHANGED passes /\ LoopIdle(BOOLEAN)
    \/ UNCHANGED passes /\ LoopCmd(BOOLEAN, BrightCodes)
    \/ UNCHANGED passes /\ LoopRepeat(BOOLEAN)

SpecBright == InitBright /\ [][NextBright]_vars

\* The SPARKLE mode slowed down twice and left for the CONSTANT mode in the
\* last pass of its cycle.
SlowSparkleLeft ==
    <<KeyOnOff, <<FALSE, CmdEvent(IR_SLOWER)>>, <<FALSE, CmdEvent(IR_SLOWER)>>,
      <<FALSE, NoEvent>>, <<FALSE, NoEvent>>, KeyMode>>

\* The CONSTANT mode and the CHASE mode, device ON or ECO; and the CONSTANT
\* mode entered from a slowed SPARKLE mode.
InitSpeed ==
    /\ pc = "loop"
    /\ passes = 0
    /\ call = <<>>
    /\ \/ \E j \in {1, 3}, e \in {0, 1} :
             Is(After(<<KeyOnOff>> \o Times(j, KeyMode) \o Times(e, KeyOnOff)))
       \/ Is(After(SlowSparkleLeft))

SpeedCodes == {IR_SLOWER, IR_FASTER}

\* Any number of passes with the speed inputs.
NextSpeed ==
    \/ UNCHANGED passes /\ LoopIdle({FALSE})
    \/ UNCHANGED passes /\ LoopCmd({FALSE}, SpeedCodes)
    \/ UNCHANGED passes /\ LoopRepeat({FALSE})

SpecSpeed == InitSpeed /\ [][NextSpeed]_vars

\* More inputs of a pass: none, and some commands; KeySpawn: no input, and
\* renderSprite() spawns a red sprite that moves up the strip.
KeyIdle == <<FALSE, NoEvent>>
KeyPause == <<FALSE, CmdEvent(IR_PAUSE)>>
KeyInc == <<FALSE, CmdEvent(IR_BRIGHTNESS_INC)>>
KeySlower == <<FALSE, CmdEvent(IR_SLOWER)>>
KeySpawn == <<FALSE, NoEvent, [spawn |-> TRUE, vel |-> 1, color |-> CRGB(255, 0, 0)]>>

\* What the user may do between two changes of the device state.
Tweaks == {<<>>, <<KeyPause>>, <<KeyInc, KeySlower, KeyIdle>>}

\* e times: the device state switched, then the inputs w.
RECURSIVE Rounds(_, _)
Rounds(e, w) == IF e = 0 THEN <<>> ELSE <<KeyOnOff>> \o w \o Rounds(e - 1, w)

\* The device switched on, the mode changed j times, three passes of animation
\* (in the SPRITE mode a sprite may spawn), the inputs w, and e more rounds.
PowerScenarios ==
    {<<KeyOnOff>> \o Times(j, KeyMode) \o <<KeyIdle, x, KeyIdle>> \o w \o Rounds(e, w) :
        j \in 0 .. 4, x \in {KeyIdle, KeySpawn}, e \in 0 .. 2, w \in Tweaks}

InitPower ==
    /\ pc = "loop"
    /\ passes = 0
    /\ call = <<>>
    /\ \E q \in PowerScenarios : Is(After(q))

\* Every input, in every mode and device state with its effects under way.
NextPower ==
    \/ Counted(MaxPowerPasses) /\ LoopIdle(BOOLEAN)
    \/ Counted(MaxPowerPasses) /\ LoopCmd(BOOLEAN, IrCodes)
    \/ Counted(MaxPowerPasses) /\ LoopRepeat(BOOLEAN)

SpecPower == InitPower /\ [][NextPower]_vars

KeyLeft == <<FALSE, CmdEvent(IR_LEFT)>>
KeyRight == <<FALSE, CmdEvent(IR_RIGHT)>>

\* The CHASE mode at the start of a cycle with the hue base 0: the mode
\* selected (its pass renders: hue base 16), the device ON or switched to ECO
\* (e = 1); the direction turned right (hue base 0), the animation paused and
\* started to the right again (hue base 240), the direction turned left (hue
\* base 0, cycle number 1); then 19 passes without input.
ChaseTurn(e) ==
    <<KeyOnOff>> \o Times(3, KeyMode) \o Times(e, KeyOnOff)
        \o <<KeyRight, KeyPause, KeyRight, KeyLeft>> \o Times(19, KeyIdle)

InitTicks ==
    /\ pc = "loop"
    /\ passes = 0
    /\ call = <<>>
    /\ \E e \in {0, 1} : Is(After(ChaseTurn(e)))

\* Passes without input, counted.
NextTicks == Counted(MaxChaseTicks) /\ LoopIdle({FALSE})

SpecTicks == InitTicks /\ [][NextTicks]_vars

\* The CHASE mode just selected, device ON or ECO.
InitChase ==
    /\ pc = "loop"
    /\ passes = 0
    /\ call = <<>>
    /\ \E e \in {0, 1} :
          Is(After(<<KeyOnOff>> \o Times(3, KeyMode) \o Times(e, KeyOnOff)))

ChaseCodes == {IR_LEFT, IR_RIGHT, IR_PAUSE}

\* Any number of passes with the inputs that steer the chase effect.
NextChase ==
    \/ UNCHANGED passes /\ LoopIdle({FALSE})
    \/ UNCHANGED passes /\ LoopCmd({FALSE}, ChaseCodes)

SpecChase == InitChase /\ [][NextChase]_vars

\* The SPARKLE mode (the mode after setup()), device ON or ECO.
InitSparkle ==
    /\ pc = "loop"
    /\ passes = 0
    /\ call = <<>>
    /\ \E e \in {1, 2} : Is(After(Times(e, KeyOnOff)))

\* Any number of passes without input, or with the animation paused or resumed.
NextSparkle ==
    \/ UNCHANGED passes /\ LoopIdle({FALSE})
    \/ UNCHANGED passes /\ LoopCmd({FALSE}, {IR_PAUSE, IR_PLAY})

SpecSparkle == InitSparkle /\ [][NextSparkle]_vars

\* The globals s with an active sprite in slot k of the pool.
Placed(s, k, p, v, col) ==
    [s EXCEPT !.sprites_[k] =
        [active |-> TRUE, activateAt |-> -1, pos |-> p, vel |-> v, color |-> col]]

\* The SPRITE mode selected and one more pass: the next pass renders. Then
\* f = 1: renderSprite() has spawned a sprite in each of ten render steps in a
\* row, to the right and to the left in turn, and the pool is full.
SpriteScenario(f) ==
    <<KeyOnOff>> \o Times(4, KeyMode) \o <<KeyIdle>> \o
    [i \in 1 .. 20 * f |->
        IF i % 2 = 0 THEN KeyIdle
        ELSE IF i % 4 = 1 THEN KeySpawn
        ELSE <<FALSE, NoEvent, [spawn |-> TRUE, vel |-> -1, color |-> CRGB(0, 0, 255)]>>]

\* Pools drawAndUpdateSprites() is called with: those the passes of loop()
\* build, and, as arguments of the procedure, pools with two sprites on one
\* LED and with sprites next to and off the ends of the strip.
SpritePools ==
    LET b == After(SpriteScenario(0))
        red == CRGB(255, 0, 0)
        blue == CRGB(0, 0, 255)
    IN  {b, After(SpriteScenario(1)),
         Placed(Placed(Placed(b, 1, 5, 1, red), 3, 5, -1, blue), 0, 6, -1, red),
         Placed(Placed(Placed(b, 2, -1, 1, red), 5, NUM_LEDS, -1, blue), 7, NUM_LEDS - 1, 1, blue)}

\* In a run renderSprite() spawns one more sprite, in any of its render steps
\* (the count of spawned sprites starts one below its bound).
InitSprite ==
    /\ pc = "loop"
    /\ passes = 0
    /\ call = <<>>
    /\ \E b \in SpritePools : Is([b EXCEPT !.spawned = MaxSpawned - 1])

\* Any number of passes without input; renderSprite() draws its random numbers.
NextSprite == UNCHANGED passes /\ LoopIdle({FALSE})

SpecSprite == InitSprite /\ [][NextSprite]_vars

\* The passes in a row that end in an unpaused animation without a render
\* step of their own, counted up to the longest cycle.
SinceRender ==
    passes' = IF rendered' \/ paused_' THEN 0
              ELSE Min(passes + 1, RENDER_NUM_CYCLES_HOLD_MAX)

\* Any number of passes without input or with a command that changes the
\* speed of the animation.
NextAnim ==
    \/ LoopIdle({FALSE}) /\ SinceRender
    \/ LoopCmd({FALSE}, {IR_SLOWER, IR_FASTER}) /\ SinceRender

\* The CHASE mode just selected, device ON or ECO, and then these passes.
SpecAnim == InitChase /\ [][NextAnim]_vars

\* The arguments of the calls of fadeBrightness() examined on their own: any
\* start value with an end value at most MaxFadeLen away, and every fade that
\* starts or ends at an end of the range of uint8_t.
FadeCalls ==
    {c \in (0 .. 255) \X (0 .. 255) :
        \/ c[1] - c[2] \in -MaxFadeLen .. MaxFadeLen
        \/ c[1] \in {0, 255}
        \/ c[2] \in {0, 255}}

\* After setup(), about to call fadeBrightness(startBr, endBr, stepDelay).
InitFade ==
    /\ pc = "fade"
    /\ passes = 0
    /\ Is(After(<<>>))
    /\ call \in FadeCalls

\* The call: what it shows is counted from the call on.
NextFade ==
    /\ pc = "fade"
    /\ pc' = "faded"
    /\ \E t \in {fadeBrightness([Globals EXCEPT !.shows = 0, !.commits = <<>>],
                                 call[1], call[2])} : Becomes(t)
    /\ UNCHANGED <<passes, call>>

SpecFade == InitFade /\ [][NextFade]_vars

----------------------------------------------------------------------------
(* Vocabulary of the properties *)

\* The power cycle Off -> On -> Eco -> Off.
PowerCycle(d) ==
    CASE d = OFF -> ON
      [] d = ON -> ECO
      [] d = ECO -> OFF

\* The mode cycle Constant -> Gradient -> Chase -> Sprite -> Sparkle -> Constant.
ModeCycle(m) ==
    CASE m = CONSTANT_MODE -> GRADIENT
      [] m = GRADIENT -> CHASE
      [] m = CHASE -> SPRITE
      [] m = SPRITE -> SPARKLE
      [] m = SPARKLE -> CONSTANT_MODE

\* In a step: the IR event of the pass, and the globals right after its
\* change of the device state and right after its command, before it renders.
PassEvent == [kind |-> inIr', value |-> IF inIr' = "cmd" THEN lastCmd' ELSE 0]
PassSwitch == AfterSwitch(Globals, inBtn', PassEvent)
PassCommand == AfterCommand(Globals, inBtn', PassEvent)

\* In a step: the pass carries the command c, new or as an accepted repeat.
Carries(c) ==
    \/ inIr' = "cmd" /\ lastCmd' = c
    \/ /\ inIr' = "repeat"
       /\ irCmdValue_ = c
       /\ c \in {IR_BRIGHTNESS_INC, IR_BRIGHTNESS_DEC, IR_SLOWER, IR_FASTER}

\* In a step: the command interpreter is given the command c (the device is
\* On or Eco once the power events of the pass are processed).
Applies(c) == Carries(c) /\ deviceState_' # OFF

\* In a step: the pass carries a power toggle.
Toggles == inBtn' \/ (inIr' = "cmd" /\ lastCmd' = IR_ON_OFF)

----------------------------------------------------------------------------
(* Properties *)

PowerHistoryCyclic ==
    /\ deviceState_ = IF powerHist = <<>> THEN OFF
                      ELSE PowerCycle(powerHist[Len(powerHist)])
    /\ \A i \in 1 .. Len(powerHist) - 1 : powerHist[i + 1] = PowerCycle(powerHist[i])
    /\ Len(powerHist) = 3 => deviceState_ = powerHist[1]

\* C1: the device state is Off before the first power toggle, every change of
\* it goes one step along Off -> On -> Eco -> Off, and after three toggles it
\* is again what it was before them.
C1_PowerCycleOfThree ==
    /\ []PowerHistoryCyclic
    /\ [][deviceState_' \in {deviceState_, PowerCycle(deviceState_)}]_vars

\* The pass with the fourth toggle since setup(): from On over Eco and Off
\* back to On.
C1_Witness ==
    /\ passes > 0
    /\ switched
    /\ powerHist = <<ON, ECO, OFF>>
    /\ deviceState_ = ON

\* C2: the device state changes in a pass exactly if the pass carries a button
\* release or a new IR_ON_OFF command, and then by one transition, also when
\* it carries both.
C2_PowerChangesOnlyOnToggle ==
    [][/\ (deviceState_' # deviceState_) <=> Toggles
       /\ Toggles => deviceState_' = PowerCycle(deviceState_)]_vars

\* A pass with the button release and IR_ON_OFF together, from On to Eco.
C2_Witness ==
    /\ inBtn
    /\ inIr = "cmd"
    /\ lastCmd = IR_ON_OFF
    /\ powerHist # <<>>
    /\ powerHist[Len(powerHist)] = ON
    /\ deviceState_ = ECO

BrightnessInRange == brightness_ \in BRIGHTNESS_MIN .. BRIGHTNESS_MAX

\* C3: brightness_ is always in BRIGHTNESS_MIN .. BRIGHTNESS_MAX; IR_BRIGHTNESS_DEC
\* at BRIGHTNESS_MIN and IR_BRIGHTNESS_INC at BRIGHTNESS_MAX leave it, and
\* DecRunLen IR_BRIGHTNESS_DEC commands from BRIGHTNESS_MAX end at BRIGHTNESS_MIN.
C3_BrightnessSaturates ==
    /\ []BrightnessInRange
    /\ [][/\ (Applies(IR_BRIGHTNESS_DEC) /\ PassSwitch.brightness_ = BRIGHTNESS_MIN)
              => brightness_' = BRIGHTNESS_MIN
          /\ (Applies(IR_BRIGHTNESS_INC) /\ PassSwitch.brightness_ = BRIGHTNESS_MAX)
              => brightness_' = BRIGHTNESS_MAX
          /\ decRun' = DecRunLen => brightness_' = BRIGHTNESS_MIN]_vars

\* The last of DecRunLen IR_BRIGHTNESS_DEC commands from BRIGHTNESS_MAX.
C3_Witness ==
    /\ decRun = DecRunLen
    /\ cmdApplied
    /\ irCmdValue_ = IR_BRIGHTNESS_DEC
    /\ brightness_ = BRIGHTNESS_MIN

CyclesHoldInRange ==
    renderCyclesHold_ \in RENDER_NUM_CYCLES_HOLD_MIN .. RENDER_NUM_CYCLES_HOLD_MAX

\* C4: renderCyclesHold_ is always in RENDER_NUM_CYCLES_HOLD_MIN ..
\* RENDER_NUM_CYCLES_HOLD_MAX (so never 0); IR_FASTER at the minimum and
\* IR_SLOWER at the maximum leave it.
C4_CyclesHoldSaturates ==
    /\ []CyclesHoldInRange
    /\ [][/\ (Applies(IR_FASTER) /\ renderCyclesHold_ = RENDER_NUM_CYCLES_HOLD_MIN)
              => renderCyclesHold_' = RENDER_NUM_CYCLES_HOLD_MIN
          /\ (Applies(IR_SLOWER) /\ renderCyclesHold_ = RENDER_NUM_CYCLES_HOLD_MAX)
              => renderCyclesHold_' = RENDER_NUM_CYCLES_HOLD_MAX]_vars

\* IR_SLOWER at the maximum, in the CHASE mode.
C4_Witness ==
    /\ lightMode_ = CHASE
    /\ cmdApplied
    /\ irCmdValue_ = IR_SLOWER
    /\ renderCyclesHold_ = RENDER_NUM_CYCLES_HOLD_MAX
    /\ cycleNr_ > RENDER_CHASE_NUM_CYCLES_HOLD_INIT

ModeHistoryCyclic ==
    /\ lightMode_ = IF modeHist = <<>> THEN SPARKLE
                    ELSE ModeCycle(modeHist[Len(modeHist)])
    /\ \A i \in 1 .. Len(modeHist) - 1 : modeHist[i + 1] = ModeCycle(modeHist[i])
    /\ Len(modeHist) = 5 =>
          /\ lightMode_ = modeHist[1]
          /\ {modeHist[i] : i \in 1 .. 5} =
                {CONSTANT_MODE, GRADIENT, CHASE, SPRITE, SPARKLE}

\* C5: IR_MODE_CHANGE takes every mode to the next one of the cycle Constant ->
\* Gradient -> Chase -> Sprite -> Sparkle -> Constant, five of them go through
\* all five modes and back to the first, and nothing else changes lightMode_.
C5_ModeCycleOfFive ==
    /\ []ModeHistoryCyclic
    /\ [][lightMode_' = IF Applies(IR_MODE_CHANGE) THEN ModeCycle(lightMode_)
                        ELSE lightMode_]_vars

\* Five mode changes, from Chase back to Chase.
C5_Witness ==
    /\ modeHist = <<CHASE, SPRITE, SPARKLE, CONSTANT_MODE, GRADIENT>>
    /\ lightMode_ = CHASE
    /\ cmdApplied
    /\ irCmdValue_ = IR_MODE_CHANGE

\* C6, as amended: right after an IR_MODE_CHANGE command is applied, before
\* the pass renders, cycleNr_ is 0 if the new mode is Gradient, Chase, Sprite
\* or Sparkle; the change from Sparkle to Constant leaves cycleNr_ as it was.
C6_CycleNrResetIntoAnimated ==
    [][Applies(IR_MODE_CHANGE) =>
          PassCommand.cycleNr_ = IF lightMode_ = SPARKLE
                                 THEN PassSwitch.cycleNr_
                                 ELSE 0]_vars

\* C6, as stated: right after an IR_MODE_CHANGE command is applied, from
\* every mode, cycleNr_ is 0.
C6_CycleNrResetAlways ==
    [][Applies(IR_MODE_CHANGE) => PassCommand.cycleNr_ = 0]_vars

\* A change from Sparkle to Constant that has left cycleNr_ other than 0.
C6_Witness ==
    /\ passes > 0
    /\ cmdApplied
    /\ irCmdValue_ = IR_MODE_CHANGE
    /\ modeHist # <<>>
    /\ modeHist[Len(modeHist)] = SPARKLE
    /\ lightMode_ = CONSTANT_MODE
    /\ cycleNr_ # 0

\* The speed a mode starts with.
SpeedPreset(m) ==
    CASE m = GRADIENT -> RENDER_GRADIENT_NUM_CYCLES_HOLD_INIT
      [] m = CHASE -> RENDER_CHASE_NUM_CYCLES_HOLD_INIT
      [] m = SPRITE -> RENDER_SPRITES_NUM_CYCLES_HOLD_INIT
      [] m = SPARKLE -> RENDER_SPARKLE_NUM_CYCLES_HOLD_INIT

\* C7: right after an IR_MODE_CHANGE command into Gradient, Chase, Sprite or
\* Sparkle, renderCyclesHold_ is the speed that mode starts with.
C7_SpeedPresetAfterModeChange ==
    [][(Applies(IR_MODE_CHANGE) /\ lightMode_' # CONSTANT_MODE) =>
          PassCommand.renderCyclesHold_ = SpeedPreset(lightMode_')]_vars

\* C8: right after an IR_MODE_CHANGE command refreshNeeded_ is set and paused_
\* is clear; into Gradient or Chase hueBase_ is 0; into Sparkle the sparkle
\* rises (sparkleState_ 1) from RENDER_SPARKLE_LIGHTNESS_MIN in colour 0.
C8_ModeChangeResets ==
    [][Applies(IR_MODE_CHANGE) =>
          LET c == PassCommand
          IN  /\ c.refreshNeeded_
              /\ ~c.paused_
              /\ c.lightMode_ \in {GRADIENT, CHASE} => c.hueBase_ = 0
              /\ c.lightMode_ = SPARKLE =>
                    /\ c.sparkleState_ = 1
                    /\ c.sparkleValue_ = RENDER_SPARKLE_LIGHTNESS_MIN
                    /\ c.sparkleColorIdx_ = 0]_vars

\* A change from Gradient to Chase; the pass has rendered the first step of
\* the chase, from hueBase_ 0.
C8_Witness ==
    /\ passes > 0
    /\ cmdApplied
    /\ irCmdValue_ = IR_MODE_CHANGE
    /\ modeHist # <<>>
    /\ modeHist[Len(modeHist)] = GRADIENT
    /\ lightMode_ = CHASE
    /\ rendered
    /\ hueBase_ = RENDER_CHASE_HUE_STEP
    /\ ~paused_

\* The commands a repeat event repeats.
Repeated == {IR_BRIGHTNESS_INC, IR_BRIGHTNESS_DEC, IR_SLOWER, IR_FASTER}

\* The globals but for the stored IR code and the record of the IR input.
EffectState(g) == [f \in DOMAIN g \ {"irCmdValue_", "inIr"} |-> g[f]]

\* C9: a repeat event whose last new command is none of BrightnessUp,
\* BrightnessDown, SpeedUp, SpeedDown is discarded: no command is applied, the
\* device state changes only by the button, and the pass leaves the state an
\* idle pass leaves; so it is for every further repeat event.
C9_RepeatDiscarded ==
    [][(pc = "loop" /\ inIr' = "repeat" /\ lastCmd \notin Repeated) =>
          /\ ~irCmdAvailable_'
          /\ ~cmdApplied'
          /\ switched' <=> inBtn'
          /\ \E g \in {Globals'} :
                \E t \in {Step(Globals, inBtn', NoEvent, rnd) :
                             rnd \in RandomsOf(AfterCommand(Globals, inBtn', NoEvent))} :
                   EffectState(g) = EffectState(t)]_vars

\* The second of two repeat events after IR_MODE_CHANGE, device ON.
C9_Witness ==
    /\ passes = 2
    /\ inIr = "repeat"
    /\ lastCmd = IR_MODE_CHANGE
    /\ deviceState_ = ON
    /\ irCmdValue_ = 0
    /\ ~irCmdAvailable_
    /\ ~cmdApplied
    /\ ~inBtn
    /\ modeHist # <<>>
    /\ lightMode_ = ModeCycle(modeHist[Len(modeHist)])

\* C10: a pass that starts with the device OFF and carries an IR event but no
\* power toggle changes none of the mode, brightness, speed, cycle, hue,
\* direction, pause, colour, sparkle, sprites and LED buffer, takes no render
\* step and shows nothing.
C10_OffIgnoresCommands ==
    [][(pc = "loop" /\ deviceState_ = OFF /\ inIr' # "none" /\ ~Toggles) =>
          /\ UNCHANGED <<lightMode_, brightness_, renderCyclesHold_, cycleNr_,
                         hueBase_, dirLeft_, paused_, constantColor,
                         sparkleColorIdx_, sparkleValue_, sparkleState_,
                         sprites_, ledStrip_>>
          /\ ~cmdApplied'
          /\ ~rendered'
          /\ shows' = 0]_vars

\* IR_MODE_CHANGE received while the device is OFF in the Chase mode.
C10_Witness ==
    /\ passes > 0
    /\ deviceState_ = OFF
    /\ ~switched
    /\ ~inBtn
    /\ inIr = "cmd"
    /\ lastCmd = IR_MODE_CHANGE
    /\ irCmdAvailable_
    /\ lightMode_ = CHASE

\* In a step: the command interpreter has changed a global (other than the
\* record that it was called) after the change of the device state.
CommandMutates ==
    \E a \in {PassSwitch} : \E c \in {PassCommand} :
        \E f \in DOMAIN c \ {"cmdApplied"} : c[f] # a[f]

\* C11, as amended: in a pass that changes the device state the command
\* interpreter changes nothing if the pass carries IR_ON_OFF, carries no
\* accepted command, or leaves the device OFF; a button release together with
\* another accepted command, the device then ON or ECO, has the command
\* applied after the change: IR_BRIGHTNESS_INC gives the preset plus
\* BRIGHTNESS_STEP, IR_MODE_CHANGE the next mode.
C11_CommandAfterButtonSwitch ==
    [][switched' =>
          /\ (Carries(IR_ON_OFF) \/ ~irCmdAvailable_' \/ deviceState_' = OFF)
                => ~CommandMutates
          /\ Applies(IR_BRIGHTNESS_INC) =>
                brightness_' = BRIGHTNESS_STEP +
                    (IF deviceState_' = ON THEN BRIGHTNESS_ON ELSE BRIGHTNESS_ECO)
          /\ Applies(IR_MODE_CHANGE) => lightMode_' = ModeCycle(lightMode_)]_vars

\* C11, as stated: in a pass that changes the device state the command
\* interpreter changes nothing.
C11_SwitchExcludesCommand ==
    [][switched' => ~CommandMutates]_vars

\* A button release together with IR_BRIGHTNESS_INC, from ON to ECO.
C11_Witness ==
    /\ passes > 0
    /\ switched
    /\ inBtn
    /\ inIr = "cmd"
    /\ lastCmd = IR_BRIGHTNESS_INC
    /\ cmdApplied
    /\ deviceState_ = ECO
    /\ brightness_ = BRIGHTNESS_ECO + BRIGHTNESS_STEP

\* The resets of switchDeviceState() that C12 and C13 name, in the globals a.
EffectsReset(a) ==
    /\ a.cycleNr_ = 0
    /\ a.hueBase_ = 0
    /\ a.sparkleValue_ = RENDER_SPARKLE_LIGHTNESS_MIN
    /\ a.sparkleState_ = 1
    /\ a.sparkleColorIdx_ = 0
    /\ ~a.paused_
    /\ a.refreshNeeded_

\* C12: right after the change from OFF to ON, before the pass renders, in
\* every mode: brightness_ is BRIGHTNESS_ON, cycleNr_ and hueBase_ are 0, the
\* sparkle rises from RENDER_SPARKLE_LIGHTNESS_MIN in colour 0, paused_ is
\* clear and refreshNeeded_ set.
C12_SwitchOnResets ==
    [][(deviceState_ = OFF /\ switched') =>
          \E a \in {PassSwitch} :
             /\ a.deviceState_ = ON
             /\ a.brightness_ = BRIGHTNESS_ON
             /\ EffectsReset(a)]_vars

\* Switched on in the SPARKLE mode after it was paused, in ECO, before the
\* device went OFF; the pass has rendered the first step of the sparkle.
C12_Witness ==
    /\ passes = 1
    /\ switched
    /\ deviceState_ = ON
    /\ lastCmd = IR_ON_OFF
    /\ inIr = "cmd"
    /\ lightMode_ = SPARKLE
    /\ rendered
    /\ sparkleValue_ = RENDER_SPARKLE_LIGHTNESS_MIN + RENDER_SPARKLE_LIGHTNESS_STEP
    /\ brightness_ = BRIGHTNESS_ON

\* C13: right after the change from ON to ECO, before the pass renders:
\* brightness_ is BRIGHTNESS_ECO and the resets are those of the change from
\* OFF to ON.
C13_SwitchEcoResets ==
    [][(deviceState_ = ON /\ switched') =>
          \E a \in {PassSwitch} :
             /\ a.deviceState_ = ECO
             /\ a.brightness_ = BRIGHTNESS_ECO
             /\ EffectsReset(a)]_vars

\* C14: a change from ECO to OFF shows brightness_, brightness_ - 1, ..., 0,
\* each with the strip as it was, then the strip all black; the pass renders
\* nothing and ends with the device OFF and brightness_ = BRIGHTNESS_OFF.
C14_SwitchOffFades ==
    [][(deviceState_ = ECO /\ switched') =>
          /\ deviceState_' = OFF
          /\ brightness_' = BRIGHTNESS_OFF
          /\ ~rendered'
          /\ ledStrip_' = AllBlack
          /\ Len(commits') = brightness_ + 2
          /\ \A i \in 1 .. brightness_ + 1 :
                /\ commits'[i].br = brightness_ + 1 - i
                /\ commits'[i].strip = ledStrip_
          /\ commits'[brightness_ + 2].strip = AllBlack]_vars

\* Switched off from a raised brightness with colours on the strip.
C14_Witness ==
    /\ passes = 1
    /\ switched
    /\ deviceState_ = OFF
    /\ Len(commits) = BRIGHTNESS_ECO + BRIGHTNESS_STEP + 2
    /\ commits[1].br = BRIGHTNESS_ECO + BRIGHTNESS_STEP
    /\ commits[1].strip # AllBlack
    /\ commits[Len(commits) - 1].br = 0
    /\ commits[Len(commits)].strip = AllBlack

\* A sprite of the pool is active on the strip.
SpriteOnStrip ==
    \E k \in SpriteIdx :
        /\ sprites_[k].active
        /\ sprites_[k].pos \in LedIdx

\* C15, as amended: IR_ON_OFF received while the device is OFF switches it ON
\* with brightness_ = BRIGHTNESS_ON, and the pass renders; afterwards a LED of
\* the strip is not black in the modes Constant, Gradient, Chase and Sparkle,
\* and in the SPRITE mode exactly if a sprite of the pool was active on the
\* strip or the render step has spawned one.
C15_SwitchOnLights ==
    [][(deviceState_ = OFF /\ Carries(IR_ON_OFF)) =>
          /\ deviceState_' = ON
          /\ brightness_' = BRIGHTNESS_ON
          /\ lightMode_ # CONSTANT_MODE => rendered'
          /\ lightMode_ # SPRITE => ledStrip_' # AllBlack
          /\ lightMode_ = SPRITE =>
                (ledStrip_' # AllBlack <=> (SpriteOnStrip \/ spawned' > spawned))]_vars

\* C15, as stated: IR_ON_OFF received while the device is OFF switches it ON
\* with brightness_ = BRIGHTNESS_ON, and after the render step of the pass a
\* LED of the strip is not black, in every mode.
C15_SwitchOnLightsAlways ==
    [][(deviceState_ = OFF /\ Carries(IR_ON_OFF)) =>
          /\ deviceState_' = ON
          /\ brightness_' = BRIGHTNESS_ON
          /\ ledStrip_' # AllBlack]_vars

\* Switched on in the SPRITE mode: the render step has found no sprite and
\* spawned none, the strip is black.
C15_Witness ==
    /\ passes = 1
    /\ switched
    /\ deviceState_ = ON
    /\ lastCmd = IR_ON_OFF
    /\ inIr = "cmd"
    /\ lightMode_ = SPRITE
    /\ rendered
    /\ shows = 1
    /\ ledStrip_ = AllBlack

\* C16: in a pass that renders an animated mode (GRADIENT, CHASE, SPRITE,
\* SPARKLE; the device is ON or ECO), unless at the time of the render the
\* cycle number is 0 and the animation is not paused, the hue base, the
\* sparkle state, the sprites and the LED strip are after the pass what they
\* were right after its command; and, rendered or not, the cycle number after
\* the pass is (cycleNr_ + 1) % renderCyclesHold_ of the values the renderer
\* was called with.
C16_RenderOnlyWhenDue ==
    [][deviceState_' # OFF /\ Animated(lightMode_') =>
        \E c \in {PassCommand} :
            /\ ~(c.cycleNr_ = 0 /\ ~c.paused_) =>
                  /\ hueBase_' = c.hueBase_
                  /\ sparkleValue_' = c.sparkleValue_
                  /\ sparkleColorIdx_' = c.sparkleColorIdx_
                  /\ sparkleState_' = c.sparkleState_
                  /\ sprites_' = c.sprites_
                  /\ ledStrip_' = c.ledStrip_
                  /\ ~rendered'
            /\ cycleNr_' = (c.cycleNr_ + 1) % c.renderCyclesHold_
            /\ cycleNr_' \in 0 .. c.renderCyclesHold_ - 1]_vars

\* A pass in an animated mode, not paused, that took no render step and in
\* which the cycle number wrapped to 0.
C16_Witness ==
    /\ passes > 0
    /\ deviceState_ # OFF
    /\ Animated(lightMode_)
    /\ ~switched
    /\ ~cmdApplied
    /\ ~rendered
    /\ ~paused_
    /\ cycleNr_ = 0

C18_PausedRenderIsIdle ==
    [][/\ paused_
       /\ paused_'
       /\ ~switched'
       /\ deviceState_' # OFF
       /\ Animated(lightMode_')
       => \E c \in {PassCommand} :
             /\ ~rendered'
             /\ ledStrip_' = c.ledStrip_
             /\ hueBase_' = c.hueBase_
             /\ sparkleValue_' = c.sparkleValue_
             /\ sparkleColorIdx_' = c.sparkleColorIdx_
             /\ sparkleState_' = c.sparkleState_
             /\ sprites_' = c.sprites_
             /\ ~refreshNeeded_
             /\ commits' # <<>> => cmdApplied' /\ c.refreshNeeded_
             /\ c.refreshNeeded_ => Len(commits') = 1
             /\ ~refreshNeeded_']_vars

\* A pass of a paused animation whose command, a change of the brightness,
\* made the pass call FastLED.show().
C18_Witness ==
    /\ passes > 0
    /\ paused_
    /\ deviceState_ # OFF
    /\ Animated(lightMode_)
    /\ ~switched
    /\ cmdApplied
    /\ lastCmd = IR_BRIGHTNESS_INC
    /\ ~rendered
    /\ commits # <<>>

\* The LED strip of the chase effect for the hue base h.
ChaseColors(h) ==
    [ledNr \in LedIdx |-> CHSV((h + RENDER_CHASE_HUE_STEP * ledNr) % 256, 255, 255)]

\* The start of the scenario of C19.
ChaseStart ==
    /\ NUM_LEDS = 29
    /\ deviceState_ # OFF
    /\ lightMode_ = CHASE
    /\ dirLeft_
    /\ hueBase_ = 0
    /\ cycleNr_ = 0
    /\ renderCyclesHold_ = 20
    /\ ~paused_

\* C19: from the CHASE mode with direction left (the hue base grows), hue
\* base 0, cycle number 0, renderCyclesHold_ 20, not paused, 29 LEDs: the first
\* pass renders the strip for the hue base 0 and advances the hue base to 16;
\* after exactly 20 passes without input the hue base is 16 and the LED strip
\* still holds the colours for the hue base 0 (LED i has hue (16 * i) % 256).
\* The strip for the hue base 16 is rendered by pass 21.
C19_TwentyTicks ==
    /\ passes = 0 => ChaseStart
    /\ passes \in 1 .. 20 =>
          /\ hueBase_ = 16
          /\ ledStrip_ = ChaseColors(0)
          /\ cycleNr_ = passes % 20
    /\ passes = 21 => hueBase_ = 32 /\ ledStrip_ = ChaseColors(16)

\* C19 as stated: after exactly 20 passes the hue base is 16 and the LED strip
\* holds the colours for the hue base 16.
C19_BufferAtHue16 ==
    passes = 20 => hueBase_ = 16 /\ ledStrip_ = ChaseColors(16)

\* The state after exactly 20 passes without input.
C19_Witness ==
    /\ passes = 20
    /\ lightMode_ = CHASE
    /\ inIr = "none"
    /\ hueBase_ = 16
    /\ cycleNr_ = 0
    /\ ledStrip_[0] = CHSV(0, 255, 255)

\* C20: in every pass in which renderChase() takes a render step (CHASE mode,
\* device ON or ECO, at the time of the render the cycle number is 0 and the
\* animation is not paused) with the hue base h, afterwards every LED i in
\* 0 .. 28 has the colour of hue (h + 16 * i) % 256 at saturation 255 and value
\* 255, and the hue base is (h + 16) % 256 if the direction is left and
\* (h - 16) % 256 if it is right, a value in 0 .. 255.
C20_ChaseRenderStep ==
    [][\E c \in {PassCommand} :
          deviceState_' # OFF /\ c.lightMode_ = CHASE /\ c.cycleNr_ = 0 /\ ~c.paused_ =>
              /\ rendered'
              /\ DOMAIN ledStrip_' = 0 .. 28
              /\ \A i \in 0 .. 28 :
                    ledStrip_'[i] = CHSV((c.hueBase_ + 16 * i) % 256, 255, 255)
              /\ c.dirLeft_ => hueBase_' = (c.hueBase_ + 16) % 256
              /\ ~c.dirLeft_ => hueBase_' = (c.hueBase_ - 16) % 256
              /\ hueBase_' \in 0 .. 255]_vars

\* A render step to the right from the hue base 0: the hue base wrapped to 240.
C20_Witness ==
    /\ lightMode_ = CHASE
    /\ deviceState_ # OFF
    /\ rendered
    /\ ~dirLeft_
    /\ hueBase_ = 240
    /\ ledStrip_[0] = CHSV(0, 255, 255)
    /\ ledStrip_[28] = CHSV(192, 255, 255)

\* In a step: the renderer of the mode m takes a render step, called with the
\* globals c (the device is ON or ECO, the cycle number 0, not paused).
Renders(c, m) ==
    deviceState_' # OFF /\ c.lightMode_ = m /\ c.cycleNr_ = 0 /\ ~c.paused_

\* The globals after n render steps of renderSparkle() from the globals s
\* (the steps are halved, so that the operator nests only a few levels deep).
RECURSIVE SparkleSteps(_, _)
SparkleSteps(s, n) ==
    IF n = 0 THEN s
    ELSE IF n = 1 THEN SparkleStep(s)
    ELSE Then(SparkleSteps(s, n \div 2), LAMBDA t : SparkleSteps(t, n - n \div 2))

\* The colour index changes for the first time in render step n from s.
NextColorAfter(s, n) ==
    /\ \A m \in 1 .. n - 1 : SparkleSteps(s, m).sparkleColorIdx_ = s.sparkleColorIdx_
    /\ SparkleSteps(s, n).sparkleColorIdx_ = (s.sparkleColorIdx_ + 1) % 4

\* C21: a render step of the SPARKLE mode in the rising state raises the
\* lightness strictly and keeps the colour index; it stays rising below 255
\* and turns to falling exactly when it reaches 255. In the falling state it
\* lowers the lightness strictly and keeps the colour index, and leaves the
\* falling state only from the floor RENDER_SPARKLE_LIGHTNESS_MIN. The colour
\* index changes only in the step after that (state 0), to
\* (sparkleColorIdx_ + 1) % 4, with the lightness at the floor and the state
\* rising. From the floor, rising, the number of render steps until the colour
\* index changes is the same, 84, for each of the four colour indices.
C21_SparkleRamp ==
    /\ [](sparkleColorIdx_ \in 0 .. 3 /\ sparkleState_ \in {-1, 0, 1})
    /\ [][\E c \in {PassCommand} : Renders(c, SPARKLE) =>
            /\ rendered'
            /\ c.sparkleState_ = 1 =>
                  /\ sparkleValue_' > c.sparkleValue_
                  /\ sparkleColorIdx_' = c.sparkleColorIdx_
                  /\ sparkleState_' = IF sparkleValue_' = 255 THEN -1 ELSE 1
            /\ c.sparkleState_ = -1 =>
                  /\ sparkleValue_' < c.sparkleValue_
                  /\ sparkleColorIdx_' = c.sparkleColorIdx_
                  /\ sparkleState_' = IF c.sparkleValue_ = RENDER_SPARKLE_LIGHTNESS_MIN
                                      THEN 0 ELSE -1
                  /\ c.sparkleValue_ >= RENDER_SPARKLE_LIGHTNESS_MIN
            /\ c.sparkleState_ = 0 =>
                  /\ sparkleColorIdx_' = (c.sparkleColorIdx_ + 1) % 4
                  /\ sparkleValue_' = RENDER_SPARKLE_LIGHTNESS_MIN
                  /\ sparkleState_' = 1
            /\ sparkleState_' = 1 /\ sparkleValue_' = RENDER_SPARKLE_LIGHTNESS_MIN =>
                  \E g \in {Globals'} : NextColorAfter(g, 84)]_vars

\* The render step that ends the period of the last colour index: the ramp
\* restarts at the floor, rising, with the colour index 0 again.
C21_Witness ==
    /\ lightMode_ = SPARKLE
    /\ deviceState_ # OFF
    /\ rendered
    /\ modeHist = <<>>
    /\ sparkleColorIdx_ = 0
    /\ sparkleState_ = 1
    /\ sparkleValue_ = RENDER_SPARKLE_LIGHTNESS_MIN
    /\ ledStrip_[0] = CHSV(160, 255, 50)

\* The LED strip of the sparkle effect for the colour index k and lightness v.
SparkleColors(k, v) ==
    [ledNr \in LedIdx |->
        IF ledNr % 4 = k
        THEN CHSV(SPARKLE_COLOR_HUE[k + 1], SPARKLE_COLOR_SAT[k + 1], v)
        ELSE Black]

C23_SpriteMoves ==
    [][\E c \in {PassCommand} :
          /\ Renders(c, SPRITE) =>
                /\ \A k \in SpriteIdx :
                      /\ c.sprites_[k].active
                      /\ c.sprites_[k].pos \in 0 .. 28
                      /\ c.sprites_[k].vel \in {-1, 1}
                      => /\ ledStrip_'[c.sprites_[k].pos] # Black
                         /\ sprites_'[k].pos = c.sprites_[k].pos + c.sprites_[k].vel
                         /\ sprites_'[k].vel = c.sprites_[k].vel
                         /\ sprites_'[k].active <=> sprites_'[k].pos \in 0 .. NUM_LEDS - 1
                /\ \A k \in SpriteIdx :
                      sprites_'[k].active => sprites_'[k].pos \in 0 .. NUM_LEDS - 1
          /\ ~Renders(c, SPRITE) => sprites_' = sprites_]_vars

\* The render step in which a sprite moving up left the strip: it was drawn
\* on the last LED, moved off the strip and was deactivated.
C23_Witness ==
    /\ lightMode_ = SPRITE
    /\ rendered
    /\ ledStrip_[NUM_LEDS - 1] # Black
    /\ \E k \in SpriteIdx :
          /\ ~sprites_[k].active
          /\ sprites_[k].pos = NUM_LEDS
          /\ sprites_[k].vel = 1
          /\ sprites_[k].color[2] > 0

\* C24: in a render step of the SPRITE mode in which random() calls for a new
\* sprite, the sprite goes to the inactive slot of the pool with the lowest
\* index (it is drawn at NUM_LEDS / 2 and moved by its velocity in the same
\* step) and every other slot is after the step what it is after a step
\* without a new sprite; if all 10 slots are active, the pool and the LED
\* strip are after the step what they are after a step without a new sprite.
C24_SpawnIntoFirstFreeSlot ==
    [][\E c \in {PassCommand} :
          Renders(c, SPRITE) /\ spawned' > spawned =>
              \E n \in {renderSprite(c, NoSpawn)} :
                  /\ RENDER_SPRITES_NUM_SPRITES_MAX = 10
                  /\ \A k \in SpriteIdx :
                        /\ ~c.sprites_[k].active
                        /\ \A j \in 0 .. k - 1 : c.sprites_[j].active
                        => /\ sprites_'[k].active
                           /\ sprites_'[k].vel \in {-1, 1}
                           /\ sprites_'[k].pos = (NUM_LEDS \div 2) + sprites_'[k].vel
                           /\ ledStrip_'[NUM_LEDS \div 2] # Black
                           /\ \A j \in SpriteIdx \ {k} : sprites_'[j] = n.sprites_[j]
                  /\ (\A k \in SpriteIdx : c.sprites_[k].active) =>
                        /\ sprites_' = n.sprites_
                        /\ ledStrip_' = n.ledStrip_]_vars

\* A render step with a full pool in which random() called for a new sprite:
\* all 10 sprites are as they were spawned before, the oldest in slot 0.
C24_Witness ==
    /\ lightMode_ = SPRITE
    /\ rendered
    /\ spawned = MaxSpawned
    /\ \A k \in SpriteIdx : sprites_[k].active
    /\ sprites_[0].pos > NUM_LEDS \div 2 + 10
    /\ sprites_[9].pos < NUM_LEDS \div 2

\* The greatest element of a non-empty set of numbers.
Highest(S) == CHOOSE k \in S : \A j \in S : j <= k

\* C25: a render step of the SPRITE mode is called with a pool d (the pool
\* after the command of the pass, with the new sprite if random() called for
\* one and a slot was free). After the step every LED at which d has an active
\* sprite shows the colour of the active sprite of d with the highest index at
\* that LED, and every other LED is black; so a sprite whose position is off
\* the strip has written to no LED.
C25_LastWriteWins ==
    [][\E c \in {PassCommand} :
          Renders(c, SPRITE) =>
              \E rnd \in Randoms : \E d \in {SpawnSprite(c, rnd).sprites_} :
                  /\ rnd.spawn <=> spawned' > spawned
                  /\ \A k \in SpriteIdx :
                        d[k].active =>
                            /\ sprites_'[k].pos = d[k].pos + d[k].vel
                            /\ sprites_'[k].vel = d[k].vel
                            /\ sprites_'[k].color = nscale8_video(d[k].color, 230)
                  /\ DOMAIN ledStrip_' = 0 .. NUM_LEDS - 1
                  /\ \A i \in 0 .. NUM_LEDS - 1 :
                        \E on \in {{k \in SpriteIdx : d[k].active /\ d[k].pos = i}} :
                            ledStrip_'[i] = IF on = {} THEN Black ELSE d[Highest(on)].color]_vars

\* A render step with two active sprites on LED 5, red in slot 1 and blue in
\* slot 3: the LED is blue.
C25_Witness ==
    /\ lightMode_ = SPRITE
    /\ rendered
    /\ sprites_[1].active /\ sprites_[1].pos = 6 /\ sprites_[1].vel = 1
    /\ sprites_[3].active /\ sprites_[3].pos = 4 /\ sprites_[3].vel = -1
    /\ sprites_[1].color = nscale8_video(CRGB(255, 0, 0), 230)
    /\ ledStrip_[5] = CRGB(0, 0, 255)

\* The globals b and c differ at most in the history of the pass.
SameGlobals(b, c) ==
    \A f \in DOMAIN b \ {"cmdApplied"} : b[f] = c[f]

\* C26: in the CHASE mode IR_LEFT changes nothing if the direction is left and
\* the animation is not paused; otherwise it sets the direction left, clears
\* paused_ and sets the cycle number to 0, so with the direction left and the
\* animation paused it resumes the animation. IR_RIGHT does the same with the
\* direction right. Stated for the globals right after the command.
C26_DirectionCommands ==
    [][\E b \in {PassSwitch} : \E c \in {PassCommand} :
          /\ Applies(IR_LEFT) /\ b.lightMode_ = CHASE =>
                IF b.dirLeft_ /\ ~b.paused_
                THEN SameGlobals(b, c)
                ELSE /\ c.dirLeft_ /\ ~c.paused_ /\ c.cycleNr_ = 0
                     /\ SameGlobals([b EXCEPT !.dirLeft_ = TRUE, !.paused_ = FALSE,
                                              !.cycleNr_ = 0], c)
          /\ Applies(IR_RIGHT) /\ b.lightMode_ = CHASE =>
                IF ~b.dirLeft_ /\ ~b.paused_
                THEN SameGlobals(b, c)
                ELSE /\ ~c.dirLeft_ /\ ~c.paused_ /\ c.cycleNr_ = 0
                     /\ SameGlobals([b EXCEPT !.dirLeft_ = FALSE, !.paused_ = FALSE,
                                              !.cycleNr_ = 0], c)]_vars

\* A pass in which IR_RIGHT took effect a second time (the first one turned the
\* direction and stepped the hue base from 16 to 0, then the animation was
\* paused): the direction is right, the animation runs, and the pass has taken
\* a render step from the hue base 0.
C26_Witness ==
    /\ lightMode_ = CHASE
    /\ cmdApplied
    /\ inIr = "cmd"
    /\ lastCmd = IR_RIGHT
    /\ ~dirLeft_
    /\ ~paused_
    /\ rendered
    /\ cycleNr_ = 1
    /\ hueBase_ = 240
    /\ ledStrip_[0] = CHSV(0, 255, 255)

\* The codes of the colour buttons.
ColorCodes == {IR_RED, IR_GREEN, IR_YELLOW, IR_BLUE, IR_WHITE}

\* C27: a command outside its modes changes nothing: IR_PLAY and IR_PAUSE in
\* the CONSTANT mode, a colour button in a mode other than CONSTANT (constantColor
\* and refreshNeeded_ among the rest), IR_LEFT and IR_RIGHT in a mode other
\* than CHASE. Stated for the globals right after the command.
C27_OffDomainCommands ==
    [][\E b \in {PassSwitch} : \E c \in {PassCommand} :
          /\ (Applies(IR_PLAY) \/ Applies(IR_PAUSE)) /\ b.lightMode_ = CONSTANT_MODE =>
                SameGlobals(b, c) /\ c.cmdApplied
          /\ (\E col \in ColorCodes : Applies(col)) /\ b.lightMode_ # CONSTANT_MODE =>
                /\ SameGlobals(b, c) /\ c.cmdApplied
                /\ c.constantColor = b.constantColor
                /\ c.refreshNeeded_ = b.refreshNeeded_
          /\ (Applies(IR_LEFT) \/ Applies(IR_RIGHT)) /\ b.lightMode_ # CHASE =>
                SameGlobals(b, c) /\ c.cmdApplied]_vars

\* A pass of the GRADIENT mode in which the red button was pressed: the command
\* interpreter ran and the colour of the CONSTANT mode is still its default.
C27_Witness ==
    /\ passes > 0
    /\ lightMode_ = GRADIENT
    /\ deviceState_ # OFF
    /\ cmdApplied
    /\ inIr = "cmd"
    /\ lastCmd = IR_RED
    /\ constantColor = RENDER_CONSTANT_COLOR_DEFAULT

\* C28: after every pass with the device ON or ECO and the CONSTANT mode
\* selected every LED of the strip has the colour constantColor; and a pass
\* that calls renderConstant() with refreshNeeded_ clear leaves the LED strip
\* as it was and calls FastLED.show() not once.
C28_ConstantStrip ==
    /\ [](deviceState_ # OFF /\ lightMode_ = CONSTANT_MODE =>
            \A ledNr \in 0 .. NUM_LEDS - 1 : ledStrip_[ledNr] = constantColor)
    /\ [][\E c \in {PassCommand} :
            deviceState_' # OFF /\ c.lightMode_ = CONSTANT_MODE /\ ~c.refreshNeeded_ =>
                /\ ledStrip_' = ledStrip_
                /\ commits' = <<>>
                /\ shows' = c.shows
                /\ ~refreshNeeded_']_vars

\* A pass of the CONSTANT mode with a command that does not set
\* refreshNeeded_: nothing was shown.
C28_Witness ==
    /\ passes > 0
    /\ deviceState_ # OFF
    /\ lightMode_ = CONSTANT_MODE
    /\ ~switched
    /\ cmdApplied
    /\ lastCmd = IR_SLOWER
    /\ commits = <<>>
    /\ ledStrip_[NUM_LEDS - 1] = constantColor

\* C29: in a pass in which the device is ON or ECO once its power events are
\* processed and refreshNeeded_ is set after its command (set by the command
\* or by the change of the device state), the pass calls FastLED.show() once,
\* with the LED strip as the renderer left it. refreshNeeded_ is false after
\* every pass. Unless the pass switches the device OFF (the fade), it calls
\* FastLED.show() only if refreshNeeded_ was set in it: by the change of the
\* device state, by the command, or by a render step.
C29_RefreshShownInSamePass ==
    /\ [](~refreshNeeded_)
    /\ [][\E c \in {PassCommand} :
            /\ deviceState_' # OFF /\ c.refreshNeeded_ =>
                  /\ switched' \/ cmdApplied'
                  /\ Len(commits') = 1
                  /\ commits'[1].strip = ledStrip_'
                  /\ commits'[1].br = brightness_'
            /\ ~(switched' /\ deviceState_' = OFF) /\ commits' # <<>> =>
                  /\ deviceState_' # OFF
                  /\ c.refreshNeeded_ \/ rendered'
                  /\ Len(commits') = 1]_vars

\* The pass that switched the device to ECO: the strip was shown once with
\* the brightness of ECO.
C29_Witness ==
    /\ passes > 0
    /\ switched
    /\ deviceState_ = ECO
    /\ ~refreshNeeded_
    /\ Len(commits) = 1
    /\ commits[1].br = BRIGHTNESS_ECO
    /\ commits[1].strip = ledStrip_

\* C30: IR_FASTER clears paused_ in every light mode and IR_SLOWER leaves it
\* as it is; neither sets refreshNeeded_ nor changes the cycle number (of the
\* globals only renderCyclesHold_ and, for IR_FASTER, paused_ change, stated
\* for the globals right after the command). paused_ turns from false to true
\* only in a pass that applies IR_PAUSE in an animated mode.
C30_SpeedAndPause ==
    [][\E b \in {PassSwitch} : \E c \in {PassCommand} :
          /\ Applies(IR_FASTER) =>
                /\ ~c.paused_
                /\ c.refreshNeeded_ = b.refreshNeeded_
                /\ c.cycleNr_ = b.cycleNr_
                /\ SameGlobals([b EXCEPT !.renderCyclesHold_ = c.renderCyclesHold_,
                                         !.paused_ = FALSE], c)
          /\ Applies(IR_SLOWER) =>
                /\ c.paused_ = b.paused_
                /\ c.refreshNeeded_ = b.refreshNeeded_
                /\ c.cycleNr_ = b.cycleNr_
                /\ SameGlobals([b EXCEPT !.renderCyclesHold_ = c.renderCyclesHold_], c)
          /\ ~paused_ /\ paused_' =>
                /\ Applies(IR_PAUSE)
                /\ Animated(b.lightMode_)
                /\ lightMode_' = b.lightMode_]_vars

\* A pass of a paused animation in which IR_SLOWER was applied: the animation
\* is still paused and slower than the mode's preset.
C30_Witness ==
    /\ passes > 0
    /\ deviceState_ # OFF
    /\ Animated(lightMode_)
    /\ paused_
    /\ cmdApplied
    /\ inIr = "cmd"
    /\ lastCmd = IR_SLOWER
    /\ ~rendered
    /\ commits = <<>>

\* The first of the passes k .. n without input, counted from the globals s,
\* that takes a render step; n + 1 if none of them does.
RECURSIVE FirstRender(_, _, _)
FirstRender(s, k, n) ==
    IF k > n
    THEN n + 1
    ELSE Then(Step(s, FALSE, NoEvent, NoSpawn),
              LAMBDA v : IF v.rendered THEN k ELSE FirstRender(v, k + 1, n))

\* C31: while the device is On or Eco in an animated mode that is not paused,
\* passes without input take a render step within renderCyclesHold_ passes,
\* and after a pass with a render step the next render step is exactly
\* renderCyclesHold_ passes later; when IR_PLAY resumes a paused animation, a
\* render step follows within renderCyclesHold_ passes, the pass of the
\* command counted.
C31_RenderEveryHold ==
    /\ [](pc = "loop" /\ deviceState_ # OFF /\ Animated(lightMode_) /\ ~paused_ =>
            \E d \in {FirstRender(Globals, 1, renderCyclesHold_)} :
                /\ d <= renderCyclesHold_
                /\ rendered => d = renderCyclesHold_)
    /\ [][Applies(IR_PLAY) /\ Animated(lightMode_') /\ PassSwitch.paused_ =>
            /\ ~paused_'
            /\ \/ rendered'
               \/ \E g \in {Globals'} :
                     FirstRender(g, 1, g.renderCyclesHold_) <= g.renderCyclesHold_ - 1]_vars

\* IR_PLAY has resumed the CHASE animation, paused in the pass before at the
\* cycle number 5 of 20: the pass took no render step, and the 15th pass
\* without input from here is the first that does.
C31_Witness ==
    /\ passes > 0
    /\ deviceState_ # OFF
    /\ lightMode_ = CHASE
    /\ cmdApplied
    /\ inIr = "cmd"
    /\ lastCmd = IR_PLAY
    /\ ~paused_
    /\ ~rendered
    /\ renderCyclesHold_ = 20
    /\ cycleNr_ = 6
    /\ FirstRender(Globals, 1, renderCyclesHold_) = 15

\* C32: a call fadeBrightness(startBr, endBr, stepDelay) sets the brightness to
\* every value from startBr to endBr in steps of one, in this order, and shows
\* the strip with each of them: |startBr - endBr| + 1 steps, the last of them
\* with endBr, for every pair of values of uint8_t.
C32_FadeVisitsEveryStep ==
    pc = "faded" =>
        \E a \in {call[1]}, b \in {call[2]} :
            \E n \in {(IF a <= b THEN b - a ELSE a - b) + 1} :
                /\ shows = n
                /\ Len(commits) = n
                /\ \A i \in 1 .. n :
                      commits[i].br = IF a <= b THEN a + (i - 1) ELSE a - (i - 1)
                /\ hwBrightness = b

\* C33: in an unpaused animated mode, while the device is On or Eco, every
\* 40 passes in a row hold a render step, whatever IR_SLOWER and IR_FASTER
\* commands arrive: the passes without a render step since the last one
\* never number RENDER_NUM_CYCLES_HOLD_MAX.
C33_RenderInEveryWindow ==
    deviceState_ # OFF /\ Animated(lightMode_) /\ ~paused_ =>
        passes < RENDER_NUM_CYCLES_HOLD_MAX

\* The brightness preset of a device state.
BrightnessPreset(d) ==
    CASE d = OFF -> BRIGHTNESS_OFF
      [] d = ON -> BRIGHTNESS_ON
      [] d = ECO -> BRIGHTNESS_ECO

\* C34: a pass that changes the device state (Off -> On, On -> Eco, Eco -> Off)
\* and applies no other command ends with the light mode, renderCyclesHold_,
\* the chase direction and constantColor it started with, and with the
\* brightness preset of the new state, whatever the brightness was before;
\* the sprite pool is as it was unless the SPRITE renderer of the same pass
\* took a render step.
C34_PowerKeepsEffect ==
    [][switched' =>
        /\ deviceState_' = PowerCycle(deviceState_)
        /\ ~cmdApplied' \/ irCmdValue_' = IR_ON_OFF =>
              /\ lightMode_' = lightMode_
              /\ renderCyclesHold_' = renderCyclesHold_
              /\ dirLeft_' = dirLeft_
              /\ constantColor' = constantColor
              /\ brightness_' = BrightnessPreset(deviceState_')
              /\ hwBrightness' = BrightnessPreset(deviceState_')
        /\ ~(rendered' /\ lightMode_' = SPRITE) => sprites_' = sprites_]_vars

\* The second pass of a run has switched the device from On to Eco, in the
\* CHASE mode with the direction turned right by the pass before: the
\* direction is still right, the speed the preset of the mode.
C34_Witness ==
    /\ passes = 2
    /\ switched
    /\ deviceState_ = ECO
    /\ powerHist = <<OFF, ON>>
    /\ lightMode_ = CHASE
    /\ ~dirLeft_
    /\ renderCyclesHold_ = RENDER_CHASE_NUM_CYCLES_HOLD_INIT
    /\ brightness_ = BRIGHTNESS_ECO

\* C35: after setup() and after every pass that ends with the device Off,
\* every LED of the strip buffer is black.
C35_OffIsBlack ==
    pc = "loop" /\ deviceState_ = OFF => ledStrip_ = AllBlack

\* The device has gone from Eco to Off in the last pass: the fade has shown
\* the strip as the SPARKLE mode left it, with LEDs lit, and the buffer is
\* black now.
C35_Witness ==
    /\ pc = "loop"
    /\ passes > 0
    /\ switched
    /\ deviceState_ = OFF
    /\ powerHist = <<OFF, ON, ECO>>
    /\ commits # <<>>
    /\ commits[1].strip # AllBlack
    /\ ledStrip_ = AllBlack

\* The sprite pool of the globals s as loop() keeps it: no slot is scheduled
\* for a step, and an active sprite is on the strip and moves by one LED.
PoolInLoop(s) ==
    \A k \in SpriteIdx :
        /\ s.sprites_[k].activateAt = -1
        /\ s.sprites_[k].active =>
              /\ s.sprites_[k].pos \in 0 .. NUM_LEDS - 1
              /\ s.sprites_[k].vel \in {-1, 1}

\* C36: after setup() and after every pass of loop() every slot of the pool
\* has activateAt = -1 and every active sprite has a position on the strip
\* and the velocity 1 or -1; a slot that is inactive before a pass and active
\* after it is the first free slot, filled by a spawn in a render step of the
\* SPRITE renderer (drawAndUpdateSprites(0) activates nothing).
C36_PoolInLoop ==
    /\ PoolInLoop(setup(Constructed))
    /\ [](pc = "loop" => PoolInLoop(Globals))
    /\ [][\A k \in SpriteIdx :
            ~sprites_[k].active /\ sprites_'[k].active =>
                /\ rendered'
                /\ lightMode_' = SPRITE
                /\ spawned' = spawned + 1
                /\ k = FreeSlot(sprites_)]_vars

\* The SPRITE renderer has spawned a second sprite in the last pass, next to
\* one that is on its way along the strip.
C36_Witness ==
    /\ passes > 0
    /\ lightMode_ = SPRITE
    /\ rendered
    /\ spawned = 2
    /\ Cardinality({k \in SpriteIdx : sprites_[k].active}) = 2
    /\ \E k \in SpriteIdx : sprites_[k].active /\ sprites_[k].pos \notin {13, 15}

\* C37: in every state in which the CONSTANT mode is selected, paused_ is
\* false.
C37_ConstantNeverPaused ==
    lightMode_ = CONSTANT_MODE => ~paused_

\* The CONSTANT mode was entered from the SPARKLE mode and the last pass has
\* given IR_PAUSE to the command interpreter: the effect is not paused.
C37_Witness ==
    /\ pc = "loop"
    /\ deviceState_ # OFF
    /\ lightMode_ = CONSTANT_MODE
    /\ modeHist = <<SPARKLE>>
    /\ cmdApplied
    /\ inIr = "cmd"
    /\ lastCmd = IR_PAUSE
    /\ ~paused_

\* C38: after setup() and after every pass of loop() the brightness given to
\* FastLED last is brightness_; what a pass shows it shows with the brightness_
\* the pass ends with, but for the steps of the fade of a pass that switches
\* the device off, and the last show of such a pass has this brightness too.
C38_BrightnessSent ==
    pc = "loop" =>
        /\ hwBrightness = brightness_
        /\ commits # <<>> => commits[Len(commits)].br = brightness_
        /\ passes > 0 /\ ~(switched /\ deviceState_ = OFF) =>
              \A i \in 1 .. Len(commits) : commits[i].br = brightness_

\* The last pass has raised the brightness of the device, On, above the preset
\* of that state and has shown the strip with it.
C38_Witness ==
    /\ pc = "loop"
    /\ passes > 0
    /\ deviceState_ = ON
    /\ cmdApplied
    /\ lastCmd = IR_BRIGHTNESS_INC
    /\ brightness_ = BRIGHTNESS_ON + BRIGHTNESS_STEP
    /\ hwBrightness = brightness_
    /\ commits # <<>>
    /\ commits[1].br = brightness_

\* C39: a pass in which the IR receiver has decoded nothing keeps the last
\* command value and applies no command: the command interpreter is not
\* called, the device state changes only by the button, and without the
\* button the brightness, the speed, the mode, the direction, the colour and
\* the pause flag stay as they are. The command interpreter is called only in
\* a pass with a new command or a repeat of a repeatable one, and one such
\* pass applies one step of its command.
C39_CommandsOnlyWithEvent ==
    [][pc = "loop" =>
        /\ inIr' = "none" =>
              /\ ~irCmdAvailable_'
              /\ irCmdValue_' = irCmdValue_
              /\ ~cmdApplied'
              /\ ~CommandMutates
              /\ switched' <=> inBtn'
              /\ ~inBtn' =>
                    /\ deviceState_' = deviceState_
                    /\ brightness_' = brightness_
                    /\ renderCyclesHold_' = renderCyclesHold_
                    /\ lightMode_' = lightMode_
                    /\ dirLeft_' = dirLeft_
                    /\ constantColor' = constantColor
                    /\ paused_' = paused_
        /\ cmdApplied' =>
              /\ irCmdAvailable_'
              /\ deviceState_' # OFF
              /\ inIr' = "cmd" \/ (inIr' = "repeat" /\ irCmdValue_ \in Repeated)
        /\ Applies(IR_BRIGHTNESS_INC) /\ ~switched' =>
              brightness_' = Min(brightness_ + BRIGHTNESS_STEP, BRIGHTNESS_MAX)
        /\ Applies(IR_SLOWER) =>
              renderCyclesHold_' =
                  Min(renderCyclesHold_ + RENDER_NUM_CYCLES_HOLD_STEP, RENDER_NUM_CYCLES_HOLD_MAX)
        /\ Applies(IR_MODE_CHANGE) => lightMode_' = ModeCycle(lightMode_)]_vars

\* A pass without an IR event after IR_SLOWER has slowed the CHASE effect
\* down by one step: the command value is still IR_SLOWER, and the speed is
\* still one step below the preset.
C39_Witness ==
    /\ passes > 0
    /\ deviceState_ # OFF
    /\ inIr = "none"
    /\ ~inBtn
    /\ irCmdValue_ = IR_SLOWER
    /\ ~irCmdAvailable_
    /\ ~cmdApplied
    /\ lightMode_ = CHASE
    /\ renderCyclesHold_ = RENDER_CHASE_NUM_CYCLES_HOLD_INIT + RENDER_NUM_CYCLES_HOLD_STEP

====
